---- MODULE Spec2Model ----
(***************************************************************************)
(* State-machine model of ase/neb.py: the chain of images                  *)
(* (ChainOfStates), the nudged elastic band (NEB) with its serial,         *)
(* threaded and distributed force evaluation, and the preconditioned       *)
(* minimum-energy-path chain (PreconMEP).                                   *)
(*                                                                         *)
(* Indices are 0-based as in the source: images 0..nimages-1, atoms        *)
(* 0..natoms-1, Cartesian components 0..Dim-1, flat vectors 0..len-1.      *)
(* An array slot that numpy allocates with np.empty and that has not been  *)
(* written is the empty tuple <<>>; a written slot holding v is <<v>>.     *)
(* The same encoding stands for None / NaN / a missing attribute.          *)
(***************************************************************************)
EXTENDS Integers, Sequences, FiniteSets, TLC

\* ------------------------------------------------------------------ bounds

\* Largest number of images of a refined chain.
MaxRefined == 7

\* Largest number of import_module calls followed.
MaxImports == 3

\* Largest number of images of a trajectory.
MaxTraj == 4

\* Largest number of set_calculators calls a user makes on one chain.
MaxGens == 2

\* Largest `steps` argument of PreconMEP.run.
MaxSteps == 2

\* Largest number of images of a chain (the smallest is 3).
MaxImages == 4

\* Number of atoms of a well-formed image.
NAtoms == 2

\* Largest communicator size.
MaxWorld == 4

\* Largest value an unwritten np.empty slot may turn out to hold.
MaxGarbage == 1

\* Largest residual the preconditioned projection may produce.
MaxResid == 1

\* Cartesian components per atom: the trailing 3 of every position array.
Dim == 3

\* ------------------------------------------------------------------ state

VARIABLES
    pc,                 \* "new" | "idle" | "rejected" | "threads" | "dist"
    cls,                \* "NEB" | "PreconMEP"
    images,             \* [0..M-1 -> [positions, calc, numbers, pbc]]
    natoms,             \* self.natoms
    nimages,            \* self.nimages
    method,             \* self.method
    climb,              \* self.climb
    parallel,           \* self.parallel
    remove_rotation_and_translation,
    dynamic_relaxation, \* self.dynamic_relaxation
    worldsize,          \* self.world.size
    get_all_forces,     \* PreconMEP: TRUE when a batched callback is given
    energies,           \* self.energies: <<>> (None) or [0..M-1 -> slot]
    real_forces,        \* self.real_forces: <<>> (None) or [0..M-1 -> rows]
    imax,               \* self.imax: <<>> (unset) or <<i>>
    emax,               \* self.emax: <<>> (nan) or <<e>>
    residuals,          \* PreconMEP.residuals: [0..M-3 -> slot]
    last,               \* the last call: [op, result, arg]
    invoked,            \* images whose calculator the last call invoked
    raised,             \* images whose calculator raised in the last call
    workers,            \* threaded get_forces: [1..M-2 -> worker position]
    l_energies,         \* get_forces' local array `energies`
    l_forces,           \* get_forces' local array `forces`, keyed by image
    ranks,              \* distributed get_forces: [0..W-1 -> rank record]
    args,               \* the arguments the constructor was called with
    fmax,               \* self.fmax
    scale_fmax,         \* self.scale_fmax
    self_k,             \* self.k: [0..M-2 -> spring constant]
    oracle,             \* what the calculators return: [e, f] by image
    forces,             \* the array the last get_forces returned
    single,             \* SingleCalculatorNEB: [calculators, energies_ok, first]
    nsteps,             \* self.nsteps
    fmax_history,       \* PreconMEP.fmax_history
    run,                \* PreconMEP.run in progress: its arguments and locals
    tangents,           \* get_forces' locals t1, t2, tangent, by interior image
    calls,              \* calculator invocations: a sequence of <<image, handle>>
    ioformats,          \* formats.ioformats: the registry, by format tag
    imported,           \* how many times import_module has been called
    modules,            \* the package ase.io: what can be imported, and the
                        \* functions the modules define
    dc                  \* a DiffusionCoefficient object

chainVars == <<cls, natoms, nimages, method, climb, parallel,
               remove_rotation_and_translation, dynamic_relaxation,
               worldsize, get_all_forces>>
stepVars == <<energies, real_forces, imax, emax, residuals>>
callVars == <<last, invoked, raised>>
threadVars == <<workers, l_energies, l_forces>>
bandVars == <<args, fmax, scale_fmax, self_k, oracle, forces, single, tangents,
             calls>>
runVars == <<nsteps, fmax_history, run>>
ioVars == <<ioformats, imported, modules>>
mdVars == <<dc>>
vars == <<pc, images, chainVars, stepVars, callVars, threadVars, ranks, bandVars,
          runVars, ioVars, mdVars>>

\* ---------------------------------------------------------------- helpers

Unset == <<>>
Slot(v) == <<v>>
Val(s) == s[1]

Methods == {"aseneb", "improvedtangent", "eb"}

\* Sum of f over the index range lo..hi.
RECURSIVE SumOver(_, _, _)
SumOver(f, lo, hi) == IF hi < lo THEN 0 ELSE f[hi] + SumOver(f, lo, hi - 1)

\* numpy's positions[n1:n2]: rows n1..n2-1, re-indexed from 0.
Slice(P, n1, n2) == [r \in 0..(n2 - n1 - 1) |-> P[n1 + r]]

\* numpy's dofs.reshape((rows, 3)): row-major.
Reshape(x, rows) == [r \in 0..(rows - 1) |-> [c \in 0..(Dim - 1) |-> x[Dim * r + c]]]

\* numpy's positions.reshape(-1): row-major flattening.
Flatten(P, rows) == [j \in 0..(Dim * rows - 1) |-> P[j \div Dim][j % Dim]]

\* ------------------------------------------------------------- the images

\* len(atoms)
AtomCount(img) == Cardinality(DOMAIN img.positions)

\* A well-formed image k of a chain: atom a sits at (k, a, 0), so consecutive
\* images are translates of one another; species a+1; no periodic axis.
\* `handle` is the calculator attached to it (0: None).
Atoms(k, n, handle) ==
    [positions |-> [a \in 0..(n - 1) |->
                       [c \in 0..(Dim - 1) |-> IF c = 0 THEN k ELSE IF c = 1 THEN a ELSE 0]],
     calc |-> handle,
     numbers |-> [a \in 0..(n - 1) |-> a + 1],
     pbc |-> [c \in 0..(Dim - 1) |-> FALSE]]

\* The calculators a caller may attach to the M images.
\*   "own":    every image has a calculator of its own
\*   "bare":   the endpoints have none, each interior image its own
\*   "shared": images 1 and 2 hold the same instance
CalcLayouts == {"own", "bare", "shared"}

CalcOf(layout, k, M) ==
    CASE layout = "own" -> k + 1
      [] layout = "bare" -> IF k = 0 \/ k = M - 1 THEN 0 ELSE k + 1
      [] layout = "shared" -> IF k = 2 THEN 2 ELSE k + 1

\* The ways an image list handed to a constructor may be ill-formed at image j.
Defects == {"none", "natoms", "pbc", "order", "species"}

Defective(img, kind) ==
    CASE kind = "none" -> img
      [] kind = "natoms" ->
           LET n == AtomCount(img) IN
           [img EXCEPT !.positions = [a \in 0..n |-> img.positions[0]],
                       !.numbers = [a \in 0..n |-> a + 1]]
      [] kind = "pbc" -> [img EXCEPT !.pbc[Dim - 1] = TRUE]
      [] kind = "order" ->
           LET n == AtomCount(img) IN
           [img EXCEPT !.numbers = [a \in 0..(n - 1) |-> n - a]]
      [] kind = "species" -> [img EXCEPT !.numbers[0] = 9]

ImageList(M, layout, kind, j) ==
    [k \in 0..(M - 1) |->
        IF k = j THEN Defective(Atoms(k, NAtoms, CalcOf(layout, k, M)), kind)
        ELSE Atoms(k, NAtoms, CalcOf(layout, k, M))]

\* --------------------------------------------------- ChainOfStates.__init__

\* The three checks of one image against image 0, in the order of the loop
\* body; "ok" when none raises.
ImageCheck_Unordered(imgs, j) ==
    IF AtomCount(imgs[j]) # AtomCount(imgs[0])
    THEN "Images have different numbers of atoms"
    ELSE IF \E c \in 0..(Dim - 1) : imgs[j].pbc[c] # imgs[0].pbc[c]
    THEN "Images have different boundary conditions"
    ELSE IF {imgs[j].numbers[a] : a \in DOMAIN imgs[j].numbers}
             # {imgs[0].numbers[a] : a \in DOMAIN imgs[0].numbers}
    THEN "Images have atoms in different orders"
    ELSE "ok"

ImageCheck(imgs, j) ==
    IF AtomCount(imgs[j]) # AtomCount(imgs[0])
    THEN "Images have different numbers of atoms"
    ELSE IF \E c \in 0..(Dim - 1) : imgs[j].pbc[c] # imgs[0].pbc[c]
    THEN "Images have different boundary conditions"
    ELSE IF \E a \in DOMAIN imgs[j].numbers : imgs[j].numbers[a] # imgs[0].numbers[a]
    THEN "Images have atoms in different orders"
    ELSE "ok"

\* for img in images: ...  (the first check that raises ends the loop)
RECURSIVE ChainInitLoop(_, _)
ChainInitLoop(imgs, j) ==
    IF j \notin DOMAIN imgs THEN "ok"
    ELSE LET e == ImageCheck(imgs, j) IN
         IF e # "ok" THEN e ELSE ChainInitLoop(imgs, j + 1)

ChainOfStates_init(imgs) == ChainInitLoop(imgs, 0)

\* NEB.__init__: assert world.size == 1 or world.size % (nimages - 2) == 0
WorldAssert(par, W, M) == par => (W = 1 \/ W % (M - 2) = 0)

\* ------------------------------------------- positions <-> degrees of freedom

\* ChainOfStates.get_positions: the interior images' rows, image after image.
RECURSIVE GetPositionsLoop(_, _, _, _)
GetPositionsLoop(imgs, k, n1, positions) ==
    IF k > nimages - 2 THEN positions
    ELSE LET n2 == n1 + natoms IN
         GetPositionsLoop(imgs, k + 1, n2,
             [r \in 0..((nimages - 2) * natoms - 1) |->
                 IF n1 <= r /\ r < n2 THEN imgs[k].positions[r - n1]
                 ELSE positions[r]])

get_positions(imgs) ==
    GetPositionsLoop(imgs, 1, 0, [r \in 0..((nimages - 2) * natoms - 1) |-> Unset])

\* ChainOfStates.get_dofs
get_dofs(imgs) == Flatten(get_positions(imgs), (nimages - 2) * natoms)

\* ChainOfStates.set_positions: image i+1 takes rows n1..n2-1.
RECURSIVE ChainSetPositionsLoop(_, _, _, _)
ChainSetPositionsLoop(imgs, positions, i, n1) ==
    IF i >= nimages - 2 THEN [err |-> "ok", images |-> imgs]
    ELSE LET n2 == n1 + natoms IN
         ChainSetPositionsLoop(
             [imgs EXCEPT ![i + 1].positions = Slice(positions, n1, n2)],
             positions, i + 1, n2)

\* ChainOfStates.get_fmax_all takes no argument besides self; a call passing
\* `nargs` further positional arguments raises TypeError before its body runs.
get_fmax_all(nargs) == IF nargs # 0 THEN "TypeError" ELSE "ok"

\* NEB.set_positions.  Under dynamic relaxation the first interior image already
\* raises: ValueError when parallel, else the TypeError of the call
\* self.get_fmax_all(self.images); the lines after that call (232-237) are
\* never reached.
NEBSetPositions_Unchecked(imgs, positions, i, n1) ==
    ChainSetPositionsLoop(imgs, positions, i, n1)

RECURSIVE NEBSetPositionsLoop(_, _, _, _)
NEBSetPositionsLoop(imgs, positions, i, n1) ==
    IF i >= nimages - 2 THEN [err |-> "ok", images |-> imgs]
    ELSE IF dynamic_relaxation
    THEN IF parallel
         THEN [err |-> "ValueError", images |-> imgs]
         ELSE [err |-> get_fmax_all(1), images |-> imgs]
    ELSE LET n2 == n1 + natoms IN
         NEBSetPositionsLoop(
             [imgs EXCEPT ![i + 1].positions = Slice(positions, n1, n2)],
             positions, i + 1, n2)

set_positions(imgs, positions) ==
    IF cls = "NEB" THEN NEBSetPositionsLoop(imgs, positions, 0, 0)
    ELSE ChainSetPositionsLoop(imgs, positions, 0, 0)

\* ChainOfStates.set_dofs
set_dofs(imgs, dofs) == set_positions(imgs, Reshape(dofs, (nimages - 2) * natoms))

\* The vectors a caller passes to set_dofs: two with pairwise distinct entries
\* (a misplaced row shows), of the chain's length 3*N*(M-2).
DofVectors ==
    LET L == Dim * natoms * (nimages - 2) IN
    {[j \in 0..(L - 1) |-> j + 1], [j \in 0..(L - 1) |-> L - j]}

\* ----------------------------------------------------------- calculators

\* The calculator of an image is an oracle of its positions.  This one is the
\* harmonic well E = sum x^2, F = -x.
PotentialEnergy(img) ==
    LET n == AtomCount(img)
        sq == [j \in 0..(Dim * n - 1) |->
                  img.positions[j \div Dim][j % Dim] * img.positions[j \div Dim][j % Dim]]
    IN SumOver(sq, 0, Dim * n - 1)

CalcForces(img) ==
    [a \in DOMAIN img.positions |-> [c \in 0..(Dim - 1) |-> 0 - img.positions[a][c]]]

\* calculators = [image.calc for image in images if image.calc is not None]
\* len(set(calculators)) != len(calculators)
HasSharedCalculator_InteriorOnly(imgs) ==
    \E j, k \in DOMAIN imgs :
        /\ 0 < j /\ j < k /\ k < Cardinality(DOMAIN imgs) - 1
        /\ imgs[j].calc # 0 /\ imgs[j].calc = imgs[k].calc

HasSharedCalculator(imgs) ==
    \E j, k \in DOMAIN imgs :
        j < k /\ imgs[j].calc # 0 /\ imgs[j].calc = imgs[k].calc

\* ------------------------------------------------------ rigid-body alignment

\* ase.build.minimize_rotation_and_translation(target, atoms): moves `atoms`
\* rigidly onto `target`, minimising the RMSD.  On the integer lattice of this
\* model the rigid motions are the integer translations; the minimiser is the
\* translation by the centroid difference rounded to the nearest integer.
\* Returns the new positions of `atoms`; `target` is not touched.
minimize_rotation_and_translation(target, atoms) ==
    LET n == AtomCount(atoms)
        d == [c \in 0..(Dim - 1) |->
                LET diff == [a \in 0..(n - 1) |->
                                target.positions[a][c] - atoms.positions[a][c]]
                IN (2 * SumOver(diff, 0, n - 1) + n) \div (2 * n)]
    IN [a \in 0..(n - 1) |-> [c \in 0..(Dim - 1) |-> atoms.positions[a][c] + d[c]]]

\* for i in range(1, self.nimages):
\*     minimize_rotation_and_translation(images[i - 1], images[i])
RECURSIVE AlignLoop(_, _)
AlignLoop(imgs, i) ==
    IF i >= nimages THEN imgs
    ELSE AlignLoop(
             [imgs EXCEPT ![i].positions =
                 minimize_rotation_and_translation(imgs[i - 1], imgs[i])],
             i + 1)

\* NEB.get_forces, lines 261-263
Realign(imgs) ==
    IF remove_rotation_and_translation THEN AlignLoop(imgs, 1) ELSE imgs

\* ------------------------------------------------ evaluations of get_forces

\* The calculator requests get_forces makes on the calling thread, in order:
\* <<image, "e">> is images[i].get_potential_energy(), <<image, "f">> is
\* images[i].get_forces().
EndpointEvals ==
    IF method # "aseneb" THEN << <<0, "e">>, <<nimages - 1, "e">> >> ELSE << >>

RECURSIVE InteriorEvals(_)
InteriorEvals(i) ==
    IF i > nimages - 2 THEN << >>
    ELSE << <<i, "e">>, <<i, "f">> >> \o InteriorEvals(i + 1)

RECURSIVE ForceEvals(_)
ForceEvals(i) ==
    IF i > nimages - 2 THEN << >>
    ELSE << <<i, "f">> >> \o ForceEvals(i + 1)

\* A request on an image without calculator raises (Atoms: 'Atoms object has no
\* calculator'); the oracle raises at request number `f` (0: never).  The
\* number of the first request that raises, 0 when none does.
FirstRaise(imgs, evals, f) ==
    LET bad == {q \in 1..Len(evals) : imgs[evals[q][1]].calc = 0 \/ q = f}
    IN IF bad = {} THEN 0 ELSE CHOOSE q \in bad : \A r \in bad : q <= r

\* The images whose calculator ran, given that request q raised (0: none did).
Invoked(imgs, evals, q) ==
    {evals[r][1] : r \in {r \in 1..Len(evals) :
                            (q = 0 \/ r <= q) /\ imgs[evals[r][1]].calc # 0}}

ArgMax_WithEndpoints(e) ==
    LET written == {j \in 0..(nimages - 1) : e[j] # Unset} IN
    CHOOSE i \in written :
        \A j \in written :
            Val(e[j]) < Val(e[i]) \/ (Val(e[j]) = Val(e[i]) /\ j <= i)

\* np.argsort(energies[1:-1])[-1] + 1.  Bands are short, so numpy sorts them by
\* insertion, which is stable: of equal maxima the last index comes last.
ArgMax(e) ==
    CHOOSE i \in 1..(nimages - 2) :
        \A j \in 1..(nimages - 2) :
            Val(e[j]) < Val(e[i]) \/ (Val(e[j]) = Val(e[i]) /\ j <= i)

ZeroRows == [a \in 0..(natoms - 1) |-> [c \in 0..(Dim - 1) |-> 0]]

GarbageRows(g) == [a \in 0..(natoms - 1) |-> [c \in 0..(Dim - 1) |-> g]]

\* NEB.get_forces, lines 308-314: what the call stores once the local arrays
\* `e` (energies, by image) and `f` (forces, by interior image) are filled.
Store(e, f) ==
    /\ energies' = e
    /\ real_forces' = [k \in 0..(nimages - 1) |->
                          IF 0 < k /\ k < nimages - 1 THEN f[k] ELSE ZeroRows]
    /\ imax' = Slot(ArgMax(e))
    /\ emax' = e[ArgMax(e)]
    /\ UNCHANGED residuals

\* The local array `energies` after the evaluations of the calling thread:
\* the endpoint slots are written for improvedtangent and eb only.
LocalEnergies(imgs, interior) ==
    [k \in 0..(nimages - 1) |->
        IF 0 < k /\ k < nimages - 1
        THEN IF interior THEN Slot(PotentialEnergy(imgs[k])) ELSE Unset
        ELSE IF method # "aseneb" THEN Slot(PotentialEnergy(imgs[k])) ELSE Unset]

\* NEB.get_potential_energy: return self.emax
get_potential_energy == emax

Call(op, result, arg) == [op |-> op, result |-> result, arg |-> arg]

\* ------------------------------------------------------------ construction

\* The arguments of a constructor call: a class, an image list (well formed, or
\* ill formed at one image after the first) and the options.  Chains that are
\* not parallel run in the serial world of size 1.
Init ==
    /\ pc = "new"
    /\ cls \in {"NEB", "PreconMEP"}
    /\ \E M \in 3..MaxImages, kind \in Defects, j \in 1..(MaxImages - 1) :
          /\ j <= M - 1
          /\ kind = "none" => j = 1
          /\ images = ImageList(M, "own", kind, j)
    /\ natoms = 0
    /\ nimages = 0
    /\ method \in (IF cls = "NEB" THEN Methods ELSE {"neb", "string"})
    /\ climb \in (IF cls = "NEB" THEN BOOLEAN ELSE {FALSE})
    /\ parallel \in (IF cls = "NEB" THEN BOOLEAN ELSE {FALSE})
    /\ remove_rotation_and_translation \in (IF cls = "NEB" THEN BOOLEAN ELSE {FALSE})
    /\ dynamic_relaxation \in (IF cls = "NEB" THEN BOOLEAN ELSE {FALSE})
    /\ worldsize \in (IF parallel THEN 1..MaxWorld ELSE {1})
    /\ get_all_forces \in (IF cls = "PreconMEP" THEN BOOLEAN ELSE {FALSE})
    /\ energies = Unset
    /\ real_forces = Unset
    /\ imax = Unset
    /\ emax = Unset
    /\ residuals = Unset
    /\ last = Call("none", "ok", Unset)
    /\ invoked = {}
    /\ raised = {}
    /\ workers = Unset
    /\ l_energies = Unset
    /\ l_forces = Unset
    /\ ranks = Unset
    /\ args = Unset
    /\ fmax = Unset
    /\ scale_fmax = Unset
    /\ self_k = Unset
    /\ oracle = Unset
    /\ forces = Unset
    /\ single = Unset
    /\ nsteps = Unset
    /\ fmax_history = Unset
    /\ run = Unset
    /\ tangents = Unset
    /\ calls = Unset
    /\ ioformats = Unset
    /\ imported = Unset
    /\ modules = Unset
    /\ dc = Unset

\* ChainOfStates.__init__ followed by the rest of NEB.__init__ or
\* PreconMEP.__init__: the object exists (pc = "idle") only if nothing raised.
Construct ==
    /\ pc = "new"
    /\ LET e == ChainOfStates_init(images)
           M == Cardinality(DOMAIN images)
       IN IF e # "ok"
          THEN /\ pc' = "rejected"
               /\ last' = Call("__init__", e, Unset)
               /\ UNCHANGED <<natoms, nimages, residuals>>
          ELSE IF cls = "NEB" /\ ~WorldAssert(parallel, worldsize, M)
          THEN /\ pc' = "rejected"
               /\ last' = Call("__init__", "AssertionError", Unset)
               /\ UNCHANGED <<natoms, nimages, residuals>>
          ELSE /\ pc' = "idle"
               /\ natoms' = AtomCount(images[0])
               /\ nimages' = M
               /\ residuals' = IF cls = "PreconMEP"
                               THEN [i \in 0..(M - 3) |-> Unset] ELSE Unset
               /\ last' = Call("__init__", "ok", Unset)
    /\ UNCHANGED <<images, cls, method, climb, parallel,
                   remove_rotation_and_translation, dynamic_relaxation,
                   worldsize, get_all_forces, energies, real_forces, imax, emax,
                   invoked, raised, threadVars, ranks, bandVars, runVars, ioVars, mdVars>>

\* The caller owns the calculators and may attach others between two calls:
\* image.calc = ... on every image, after one of the layouts.
AttachCalculators(layout) ==
    /\ pc = "idle"
    /\ images' = [k \in DOMAIN images |->
                     [images[k] EXCEPT !.calc = CalcOf(layout, k, nimages)]]
    /\ images' # images
    /\ last' = Call("attach", "ok", Unset)
    /\ invoked' = {}
    /\ raised' = {}
    /\ UNCHANGED <<pc, chainVars, stepVars, threadVars, ranks, bandVars, runVars, ioVars, mdVars>>

\* ------------------------------------------------- set_positions, set_dofs

\* chain.set_positions(P), P of shape ((nimages-2)*natoms, 3)
SetPositions(x) ==
    /\ pc = "idle"
    /\ LET r == set_positions(images, Reshape(x, (nimages - 2) * natoms)) IN
          /\ images' = r.images
          /\ last' = Call("set_positions", r.err, x)
    /\ invoked' = {}
    /\ raised' = {}
    /\ UNCHANGED <<pc, chainVars, stepVars, threadVars, ranks, bandVars, runVars, ioVars, mdVars>>

\* chain.set_dofs(x), x of length 3*natoms*(nimages-2)
SetDofs(x) ==
    /\ pc = "idle"
    /\ LET r == set_dofs(images, x) IN
          /\ images' = r.images
          /\ last' = Call("set_dofs", r.err, x)
    /\ invoked' = {}
    /\ raised' = {}
    /\ UNCHANGED <<pc, chainVars, stepVars, threadVars, ranks, bandVars, runVars, ioVars, mdVars>>

\* ------------------------------------------------------- NEB.get_forces

\* The call raises `result` having stored nothing.
Raises(result) ==
    /\ last' = Call("get_forces", result, Unset)
    /\ UNCHANGED <<pc, stepVars, threadVars>>

\* Serial mode (parallel off): lines 247-273 and 308-314 in one step.
NEBGetForcesSerial ==
    /\ pc = "idle" /\ cls = "NEB" /\ ~parallel
    /\ IF HasSharedCalculator(images)
       THEN /\ Raises("ValueError")
            /\ invoked' = {} /\ raised' = {}
            /\ UNCHANGED images
       ELSE LET imgs == Realign(images)
                evals == EndpointEvals \o InteriorEvals(1)
            IN \E f \in 0..Len(evals) :
                  LET q == FirstRaise(imgs, evals, f) IN
                  /\ images' = imgs
                  /\ invoked' = Invoked(imgs, evals, q)
                  /\ raised' = IF q = 0 THEN {} ELSE {evals[q][1]}
                  /\ IF q # 0
                     THEN Raises("CalcError")
                     ELSE /\ Store(LocalEnergies(imgs, TRUE),
                                   [k \in 1..(nimages - 2) |-> CalcForces(imgs[k])])
                          /\ last' = Call("get_forces", "ok", Unset)
                          /\ UNCHANGED <<pc, threadVars>>
    /\ UNCHANGED <<chainVars, ranks, bandVars, runVars, ioVars, mdVars>>

\* Threaded mode (parallel on, world of size 1), lines 247-267 and 276-285:
\* the calling thread checks, aligns, evaluates the endpoints and starts one
\* worker per interior image.
NEBGetForcesStart ==
    /\ pc = "idle" /\ cls = "NEB" /\ parallel /\ worldsize = 1
    /\ IF HasSharedCalculator(images)
       THEN /\ Raises("ValueError")
            /\ invoked' = {} /\ raised' = {}
            /\ UNCHANGED images
       ELSE LET imgs == Realign(images)
                evals == EndpointEvals
            IN \E f \in 0..Len(evals) :
                  LET q == FirstRaise(imgs, evals, f) IN
                  /\ images' = imgs
                  /\ invoked' = Invoked(imgs, evals, q)
                  /\ raised' = IF q = 0 THEN {} ELSE {evals[q][1]}
                  /\ IF q # 0
                     THEN Raises("CalcError")
                     ELSE /\ pc' = "threads"
                          /\ workers' = [i \in 1..(nimages - 2) |-> "started"]
                          /\ l_energies' = LocalEnergies(imgs, FALSE)
                          /\ l_forces' = [i \in 1..(nimages - 2) |-> Unset]
                          /\ last' = Call("get_forces", "running", Unset)
                          /\ UNCHANGED stepVars
    /\ UNCHANGED <<chainVars, ranks, bandVars, runVars, ioVars, mdVars>>

\* The worker of image i, lines 276-278:
\*     energies[:] = image.get_potential_energy()
\*     forces[:] = image.get_forces()
\* with the views energies[i:i+1] and forces[i-1:i].  A request that raises ends
\* the worker; threading.Thread does not hand the exception on.  At most one
\* request of a call raises in this model.
Worker(i) ==
    /\ pc = "threads" /\ workers[i] = "started"
    /\ \E out \in {"ok", "raise_e", "raise_f"} :
          /\ out # "ok" => raised = {}
          /\ images[i].calc = 0 => out = "raise_e"
          /\ l_energies' = IF out = "raise_e" THEN l_energies
                           ELSE [l_energies EXCEPT ![i] = Slot(PotentialEnergy(images[i]))]
          /\ l_forces' = IF out = "ok"
                         THEN [l_forces EXCEPT ![i] = CalcForces(images[i])]
                         ELSE l_forces
          /\ workers' = [workers EXCEPT ![i] = IF out = "ok" THEN "done" ELSE "died"]
          /\ invoked' = IF images[i].calc # 0 THEN invoked \cup {i} ELSE invoked
          /\ raised' = IF out = "ok" THEN raised ELSE raised \cup {i}
    /\ UNCHANGED <<pc, images, chainVars, stepVars, last, ranks, bandVars, runVars, ioVars, mdVars>>

AllJoined == \A i \in DOMAIN workers : workers[i] \in {"done", "died"}

\* Lines 286-287 and 308-314: every join has returned; the call stores the
\* local arrays.  A slot no worker wrote holds what np.empty left there: any
\* value (one per worker, for its energy and its force rows).
NEBGetForcesJoin ==
    /\ pc = "threads" /\ AllJoined
    /\ \E g \in [1..(nimages - 2) -> 0..MaxGarbage] :
          Store([k \in 0..(nimages - 1) |->
                    IF 0 < k /\ k < nimages - 1 /\ l_energies[k] = Unset
                    THEN Slot(g[k]) ELSE l_energies[k]],
                [k \in 1..(nimages - 2) |->
                    IF l_forces[k] = Unset THEN GarbageRows(g[k]) ELSE l_forces[k]])
    /\ pc' = "idle"
    /\ last' = Call("get_forces", "ok", Unset)
    /\ workers' = Unset
    /\ l_energies' = Unset
    /\ l_forces' = Unset
    /\ UNCHANGED <<images, chainVars, invoked, raised, ranks, bandVars, runVars, ioVars, mdVars>>

\* --------------------------------------------------- PreconMEP.get_forces

\* spline_fit: s = d_P.cumsum() / d_P.sum() must increase strictly for
\* CubicSpline to accept it; d_P[i] is zero exactly when images i-1 and i
\* coincide (the preconditioner is positive definite, no axis is periodic).
SplineInfeasible(imgs) ==
    \E i \in 1..(nimages - 1) : imgs[i].positions = imgs[i - 1].positions

\* Lines 872-921.  The raw forces come from the batched callback or from the
\* interior images' calculators; the residual of an image is a norm computed
\* by the preconditioner and the spline, here any value in 0..MaxResid.
PreconGetForces ==
    /\ pc = "idle" /\ cls = "PreconMEP"
    /\ IF ~get_all_forces /\ HasSharedCalculator(images)
       THEN /\ Raises("ValueError")
            /\ invoked' = {} /\ raised' = {}
       ELSE LET evals == IF get_all_forces THEN << >> ELSE ForceEvals(1) IN
            \E f \in 0..Len(evals) :
               LET q == FirstRaise(images, evals, f) IN
               /\ invoked' = Invoked(images, evals, q)
               /\ raised' = IF q = 0 THEN {} ELSE {evals[q][1]}
               /\ IF q # 0
                  THEN Raises("CalcError")
                  ELSE IF SplineInfeasible(images)
                  THEN Raises("NumericError")
                  ELSE /\ \E r \in [0..(nimages - 3) -> 0..MaxResid] :
                             residuals' = [i \in 0..(nimages - 3) |-> Slot(r[i])]
                       /\ last' = Call("get_forces", "ok", Unset)
                       /\ UNCHANGED <<pc, energies, real_forces, imax, emax, threadVars>>
    /\ UNCHANGED <<images, chainVars, ranks, bandVars, runVars, ioVars, mdVars>>

\* ------------------------------------------------------------ specification

Next ==
    \/ Construct
    \/ \E layout \in CalcLayouts : AttachCalculators(layout)
    \/ \E x \in DofVectors : SetPositions(x)
    \/ \E x \in DofVectors : SetDofs(x)
    \/ NEBGetForcesSerial
    \/ NEBGetForcesStart
    \/ \E i \in DOMAIN workers : Worker(i)
    \/ NEBGetForcesJoin
    \/ PreconGetForces

Spec == Init /\ [][Next]_vars

\* --------------------------------------- distributed NEB.get_forces (W > 1)

\* Every rank of the communicator holds the whole band and runs get_forces.
\* A rank record:
\*   at      where the rank is: "call" (entering get_forces), "interior" (before
\*           the try of line 291), "sum" (inside world.sum), "bcast" (in the
\*           loop of line 303), "done" (returned), "raised" (left by exception)
\*   failed  the request of this rank that raised: "none", "endpoint", "interior"
\*   flag    what the rank passed to world.sum
\*   nsum    how many reductions the rank has entered
\*   bcasts  the broadcasts the rank has taken part in, in order
\*   valid   the slots of its local arrays holding computed data
\*   err     the exception the rank left with

\* Line 290: i = rank * (nimages - 2) // world.size + 1
DistImage_RoundRobin(rank) == (rank % (nimages - 2)) + 1

DistImage(rank) == (rank * (nimages - 2)) \div worldsize + 1

\* Line 304: root = (i - 1) * world.size // (nimages - 2)
DistRoot(i) == ((i - 1) * worldsize) \div (nimages - 2)

\* The k-th broadcast of lines 303-306: the energy, then the force, of image
\* 1, 2, ... in turn.
DistBroadcastOf(k) == <<(k + 1) \div 2, IF k % 2 = 1 THEN "e" ELSE "f">>

Ranks == 0..(worldsize - 1)

\* A band after construction with parallel on, on a communicator of size W > 1
\* that passed the assertion of NEB.__init__, as every rank calls get_forces.
InitDist ==
    /\ pc = "dist"
    /\ cls = "NEB"
    /\ nimages \in 3..MaxImages
    /\ worldsize \in 2..MaxWorld
    /\ WorldAssert(TRUE, worldsize, nimages)
    /\ images = ImageList(nimages, "own", "none", 1)
    /\ natoms = NAtoms
    /\ method \in Methods
    /\ climb = FALSE
    /\ parallel = TRUE
    /\ remove_rotation_and_translation = FALSE
    /\ dynamic_relaxation = FALSE
    /\ get_all_forces = FALSE
    /\ energies = Unset
    /\ real_forces = Unset
    /\ imax = Unset
    /\ emax = Unset
    /\ residuals = Unset
    /\ last = Call("get_forces", "running", Unset)
    /\ invoked = {}
    /\ raised = {}
    /\ workers = Unset
    /\ l_energies = Unset
    /\ l_forces = Unset
    /\ args = Unset
    /\ fmax = Unset
    /\ scale_fmax = Unset
    /\ self_k = Unset
    /\ oracle = Unset
    /\ forces = Unset
    /\ single = Unset
    /\ nsteps = Unset
    /\ fmax_history = Unset
    /\ run = Unset
    /\ tangents = Unset
    /\ calls = Unset
    /\ ioformats = Unset
    /\ imported = Unset
    /\ modules = Unset
    /\ dc = Unset
    /\ ranks = [r \in 0..(worldsize - 1) |->
                  [at |-> "call", failed |-> "none", flag |-> 0, nsum |-> 0,
                   bcasts |-> << >>, valid |-> {}, err |-> "none"]]

distFrame == <<pc, images, chainVars, stepVars, callVars, threadVars, bandVars,
               runVars, ioVars, mdVars>>

\* Lines 247-267 on rank r: the calculators are distinct; for improvedtangent
\* and eb the two endpoint energies are requested, outside any try.
DistEndpoints(r) ==
    /\ pc = "dist" /\ ranks[r].at = "call"
    /\ \E ok \in BOOLEAN :
          /\ ~ok => Len(EndpointEvals) > 0
          /\ ranks' = [ranks EXCEPT ![r] =
                IF ok
                THEN [@ EXCEPT !.at = "interior",
                               !.valid = {<<EndpointEvals[q][1], "e">> :
                                             q \in 1..Len(EndpointEvals)}]
                ELSE [@ EXCEPT !.at = "raised", !.failed = "endpoint",
                               !.err = "CalcError"]]
    /\ UNCHANGED distFrame

\* Lines 290-299 on rank r: the requests for its own image inside the try, then
\* world.sum(1.0) in the except clause or world.sum(0.0) in the else clause.
DistInterior(r) ==
    /\ pc = "dist" /\ ranks[r].at = "interior"
    /\ \E ok \in BOOLEAN :
          ranks' = [ranks EXCEPT ![r] =
                IF ok
                THEN [@ EXCEPT !.at = "sum", !.flag = 0, !.nsum = @ + 1,
                               !.valid = @ \cup {<<DistImage(r), "e">>,
                                                 <<DistImage(r), "f">>}]
                ELSE [@ EXCEPT !.at = "sum", !.flag = 1, !.nsum = @ + 1,
                               !.failed = "interior"]]
    /\ UNCHANGED distFrame

\* world.sum returns on rank r once every rank of the communicator has entered
\* it.  Line 297 re-raises on the rank that failed; line 301 raises
\* RuntimeError on the others when the sum is not zero.
DistSumReturns(r) ==
    /\ pc = "dist" /\ ranks[r].at = "sum"
    /\ \A q \in Ranks : ranks[q].nsum >= 1
    /\ LET error == SumOver([q \in Ranks |-> ranks[q].flag], 0, worldsize - 1) IN
       ranks' = [ranks EXCEPT ![r] =
            IF @.failed = "interior"
            THEN [@ EXCEPT !.at = "raised", !.err = "CalcError"]
            ELSE IF error # 0
            THEN [@ EXCEPT !.at = "raised", !.err = "RuntimeError"]
            ELSE [@ EXCEPT !.at = "bcast"]]
    /\ UNCHANGED distFrame

\* Lines 303-306 on rank r: its next broadcast.  The root sends; another rank
\* returns from the broadcast once the root has sent, and then holds what the
\* root held.  After the last broadcast the rank stores and returns.
DistBroadcast(r) ==
    /\ pc = "dist" /\ ranks[r].at = "bcast"
    /\ LET k == Len(ranks[r].bcasts) + 1
           b == DistBroadcastOf(k)
           root == DistRoot(b[1])
       IN /\ r # root => Len(ranks[root].bcasts) >= k
          /\ ranks' = [ranks EXCEPT ![r] =
                [@ EXCEPT !.bcasts = Append(@, b),
                          !.valid = IF r = root THEN @
                                    ELSE (@ \ {b}) \cup (ranks[root].valid \cap {b}),
                          !.at = IF k = 2 * (nimages - 2) THEN "done" ELSE "bcast"]]
    /\ UNCHANGED distFrame

NextDist ==
    \/ \E r \in Ranks : DistEndpoints(r)
    \/ \E r \in Ranks : DistInterior(r)
    \/ \E r \in Ranks : DistSumReturns(r)
    \/ \E r \in Ranks : DistBroadcast(r)

SpecDist == InitDist /\ [][NextDist]_vars

\* ------------------------------------------------- exact arithmetic of floats

\* A finite float of the program is the fraction <<n, d>> in lowest terms with
\* d > 0; NaN is the value of 0/0 and of every operation on a NaN.  In
\* get_forces every divisor that can be zero is the norm (or a bound) of its
\* dividend, so no division yields an infinity.
NaN == << >>

RECURSIVE GCD(_, _)
GCD(a, b) == IF b = 0 THEN a ELSE GCD(b, a % b)

AbsInt(n) == IF n < 0 THEN 0 - n ELSE n

Frac(n, d) ==
    LET g == GCD(AbsInt(n), AbsInt(d)) IN
    IF d < 0 THEN <<(0 - n) \div g, (0 - d) \div g>> ELSE <<n \div g, d \div g>>

Float(n) == <<n, 1>>

FAdd(a, b) ==
    IF a = NaN \/ b = NaN THEN NaN ELSE Frac(a[1] * b[2] + b[1] * a[2], a[2] * b[2])

FNeg(a) == IF a = NaN THEN NaN ELSE <<0 - a[1], a[2]>>

FSub(a, b) == FAdd(a, FNeg(b))

FMul(a, b) ==
    IF a = NaN \/ b = NaN THEN NaN ELSE Frac(a[1] * b[1], a[2] * b[2])

FDiv(a, b) ==
    IF a = NaN \/ b = NaN THEN NaN
    ELSE IF b[1] = 0 THEN NaN
    ELSE Frac(a[1] * b[2], a[2] * b[1])

\* a < b; every comparison with a NaN is False
FLess(a, b) ==
    IF a = NaN \/ b = NaN THEN FALSE ELSE a[1] * b[2] < b[1] * a[2]

FAbs(a) == IF a = NaN THEN NaN ELSE <<AbsInt(a[1]), a[2]>>

FMax(a, b) == IF FLess(a, b) THEN b ELSE a

FMin(a, b) == IF FLess(b, a) THEN b ELSE a

\* np.sqrt / np.linalg.norm on the values that occur here, which are squares
\* of fractions.
ISqrt(n) == CHOOSE r \in 0..n : r * r = n

FSqrt(a) == IF a = NaN THEN NaN ELSE <<ISqrt(a[1]), ISqrt(a[2])>>

\* Flat vectors of 3*natoms floats, as images[i].get_positions() and the rows of
\* `forces` seen by np.vdot.
Flat == 0..(Dim * natoms - 1)

FlatOf(rows) == [j \in Flat |-> Float(rows[j \div Dim][j % Dim])]

VAdd(u, v) == [j \in Flat |-> FAdd(u[j], v[j])]

VSub(u, v) == [j \in Flat |-> FSub(u[j], v[j])]

VScale(u, c) == [j \in Flat |-> FMul(u[j], c)]

VOver(u, c) == [j \in Flat |-> FDiv(u[j], c)]

RECURSIVE FSum(_, _)
FSum(f, n) == IF n < 0 THEN Float(0) ELSE FAdd(FSum(f, n - 1), f[n])

vdot(u, v) == FSum([j \in Flat |-> FMul(u[j], v[j])], Dim * natoms - 1)

norm(u) == FSqrt(vdot(u, u))

ZeroVector == [j \in Flat |-> Float(0)]

\* ------------------------------------ NEB.__init__, SingleCalculatorNEB.__init__

\* NEB.__init__(self, images, k=0.1, fmax=0.05, climb=False, parallel=False,
\*              remove_rotation_and_translation=False, world=None,
\*              method='aseneb', dynamic_relaxation=False, scale_fmax=0.)
NEBDefaults ==
    [k |-> Frac(1, 10), fmax |-> Frac(1, 20), climb |-> FALSE, parallel |-> FALSE,
     method |-> "aseneb", dynamic_relaxation |-> FALSE, scale_fmax |-> Float(0)]

\* The keyword arguments a caller of NEB(...) passes in this model.
NEBArgs ==
    {[NEBDefaults EXCEPT !.fmax = fm, !.climb = cl, !.method = me,
                         !.dynamic_relaxation = dy, !.scale_fmax = sc] :
        fm \in {Frac(1, 20), Float(2)}, cl \in BOOLEAN, me \in Methods \cup {"string"},
        dy \in BOOLEAN, sc \in {Float(0), Float(1)}}

\* SingleCalculatorNEB(images, k=0.1, climb=False, index=None)
SingleArgs == {[k |-> Frac(1, 10), climb |-> cl] : cl \in BOOLEAN}

\* A Python bool stored where a float is expected: True == 1.0, False == 0.0.
AsFloat(b) == IF b THEN Float(1) ELSE Float(0)

\* NEB.__init__ without the test of line 197.
NEB_init_AnyMethod(imgs, a) ==
    [err |-> IF ChainOfStates_init(imgs) # "ok" THEN ChainOfStates_init(imgs)
             ELSE IF ~a.dynamic_relaxation /\ a.scale_fmax # Float(0) THEN "ValueError"
             ELSE "ok",
     climb |-> a.climb,
     parallel |-> a.parallel,
     dynamic_relaxation |-> a.dynamic_relaxation,
     fmax |-> a.fmax,
     scale_fmax |-> a.scale_fmax,
     method |-> a.method,
     k |-> a.k]

\* The body of NEB.__init__ on the arguments `a`: the attributes it sets, or the
\* error it raises.
NEB_init(imgs, a) ==
    LET e == ChainOfStates_init(imgs) IN
    [err |-> IF e # "ok" THEN e
             ELSE IF ~a.dynamic_relaxation /\ a.scale_fmax # Float(0) THEN "ValueError"
             ELSE IF a.method \notin {"aseneb", "eb", "improvedtangent"}
             THEN "NotImplementedError"
             ELSE "ok",
     climb |-> a.climb,
     parallel |-> a.parallel,
     dynamic_relaxation |-> a.dynamic_relaxation,
     fmax |-> a.fmax,
     scale_fmax |-> a.scale_fmax,
     method |-> a.method,
     k |-> a.k]

\* SingleCalculatorNEB.__init__: NEB.__init__(self, images, k, climb, False)
\* binds its arguments by position: k, then fmax, then climb.
SingleCalculatorNEB_init(imgs, a) ==
    NEB_init(imgs, [NEBDefaults EXCEPT !.k = a.k, !.fmax = AsFloat(a.climb),
                                       !.climb = FALSE])

\* ------------------------------------------------ bands and calculator tables

\* Image k of a band along x: atom 0 at (x, 0, 0), atom a > 0 at (0, a, 0) in
\* every image, so images differ in one coordinate only and every norm below
\* is the absolute value of a fraction.
BandAtoms(x, n, handle) ==
    [positions |-> [a \in 0..(n - 1) |->
                       [c \in 0..(Dim - 1) |->
                           IF a = 0 /\ c = 0 THEN x
                           ELSE IF a > 0 /\ c = 1 THEN a ELSE 0]],
     calc |-> handle,
     numbers |-> [a \in 0..(n - 1) |-> a + 1],
     pbc |-> [c \in 0..(Dim - 1) |-> FALSE]]

\* "even": equally spaced images; "uneven": spacing growing along the band.
Paths == {"even", "uneven"}

PathX(path, i) == IF path = "even" THEN 2 * i ELSE i * i

BandImages(M, path) == [i \in 0..(M - 1) |-> BandAtoms(PathX(path, i), NAtoms, i + 1)]

\* Energies the calculators return along the band.
Profiles == {"flat", "rising", "falling", "peak"}

ProfileE(prof, i, M) ==
    CASE prof = "flat" -> 0
      [] prof = "rising" -> i
      [] prof = "falling" -> M - 1 - i
      [] prof = "peak" -> IF i < M - 1 - i THEN i ELSE M - 1 - i

\* Forces the calculators return: none, along the band, or across it as well.
Pushes == {"none", "along", "across"}

PushF(push, n) ==
    [a \in 0..(n - 1) |->
        [c \in 0..(Dim - 1) |->
            IF a # 0 \/ push = "none" THEN 0
            ELSE IF c = 0 THEN 1
            ELSE IF c = 1 /\ push = "across" THEN 1 ELSE 0]]

Oracle(M, prof, push) ==
    [e |-> [i \in 0..(M - 1) |-> ProfileE(prof, i, M)],
     f |-> [i \in 0..(M - 1) |-> PushF(push, NAtoms)]]

\* ----------------------------------------- NEB.get_forces: the projection

\* find_mic(images[i].get_positions() - images[i-1].get_positions(), cell, pbc)[0]
\* with no periodic axis
Displacement(imgs, i) == VSub(FlatOf(imgs[i].positions), FlatOf(imgs[i - 1].positions))

\* energies[j] as a float
EnergyAt(e, j) == Float(Val(e[j]))

deltavmax(e, i) ==
    FMax(FAbs(FSub(EnergyAt(e, i + 1), EnergyAt(e, i))),
         FAbs(FSub(EnergyAt(e, i - 1), EnergyAt(e, i))))

deltavmin(e, i) ==
    FMin(FAbs(FSub(EnergyAt(e, i + 1), EnergyAt(e, i))),
         FAbs(FSub(EnergyAt(e, i - 1), EnergyAt(e, i))))

\* The tangent at image i, normalised in every method.
Tangent_Normalised(t1, nt1, t2, nt2, e, i, imx) ==
    LET raw == IF method = "eb" THEN VAdd(VOver(t1, nt1), VOver(t2, nt2))
               ELSE IF i < imx THEN t2 ELSE IF i > imx THEN t1 ELSE VAdd(t1, t2)
    IN VOver(raw, norm(raw))

\* Lines 335-363: the tangent at image i.
Tangent(t1, nt1, t2, nt2, e, i, imx) ==
    CASE method = "eb" ->
           LET bisect == VAdd(VOver(t1, nt1), VOver(t2, nt2))
           IN VOver(bisect, norm(bisect))
      [] method = "improvedtangent" ->
           LET up == FLess(EnergyAt(e, i), EnergyAt(e, i + 1))
                      /\ FLess(EnergyAt(e, i - 1), EnergyAt(e, i))
               down == FLess(EnergyAt(e, i + 1), EnergyAt(e, i))
                        /\ FLess(EnergyAt(e, i), EnergyAt(e, i - 1))
               raw == IF up THEN t2
                      ELSE IF down THEN t1
                      ELSE IF FLess(EnergyAt(e, i - 1), EnergyAt(e, i + 1))
                      THEN VAdd(VScale(t2, deltavmax(e, i)), VScale(t1, deltavmin(e, i)))
                      ELSE VAdd(VScale(t2, deltavmin(e, i)), VScale(t1, deltavmax(e, i)))
           IN VOver(raw, norm(raw))
      [] OTHER ->
           IF i < imx THEN t2 ELSE IF i > imx THEN t1 ELSE VAdd(t1, t2)

\* Line 371: is image i the climbing image?
Climbs(i, imx) == i = imx /\ climb

\* Lines 368-402: the effective force of image i from its raw force f.
ProjectImage(f, t1, nt1, t2, nt2, e, i, imx, eqlength) ==
    LET tangent == Tangent(t1, nt1, t2, nt2, e, i, imx)
        tt == vdot(tangent, tangent)
        ft == vdot(f, tangent)
    IN IF Climbs(i, imx)
       THEN IF method = "aseneb"
            THEN VSub(f, VScale(tangent, FDiv(FMul(Float(2), ft), tt)))
            ELSE VSub(f, VScale(tangent, FMul(Float(2), ft)))
       ELSE IF method = "eb"
       THEN LET g == VSub(f, VScale(tangent, ft))
                f1 == VScale(VOver(VScale(t1, FNeg(FSub(nt1, eqlength))), nt1), self_k[i - 1])
                f2 == VScale(VOver(VScale(t2, FSub(nt2, eqlength)), nt2), self_k[i])
            IN IF climb /\ AbsInt(i - imx) = 1
               THEN VAdd(g, VOver(VScale(VAdd(f1, f2), deltavmin(e, i)), deltavmax(e, i)))
               ELSE VAdd(g, VAdd(f1, f2))
       ELSE IF method = "improvedtangent"
       THEN LET g == VSub(f, VScale(tangent, ft))
                f_spring == VScale(tangent, FSub(FMul(nt2, self_k[i]), FMul(nt1, self_k[i - 1])))
            IN VAdd(g, f_spring)
       ELSE LET g == VSub(f, VScale(tangent, FDiv(ft, tt)))
                spring == vdot(VSub(VScale(t1, self_k[i - 1]), VScale(t2, self_k[i])), tangent)
            IN VSub(g, VScale(tangent, FDiv(spring, tt)))

\* np.sqrt((rows**2).sum(axis=1)).max(), squared: the largest squared norm of
\* an atom's row; NaN when a component is NaN.
RECURSIVE MaxRowSq(_, _)
MaxRowSq(v, a) ==
    LET row == FSum([c \in 0..(Dim - 1) |-> FMul(v[Dim * a + c], v[Dim * a + c])], Dim - 1)
    IN IF a = 0 THEN row
       ELSE LET rest == MaxRowSq(v, a - 1) IN
            IF row = NaN \/ rest = NaN THEN NaN ELSE FMax(rest, row)

\* Lines 407-424: force_i < self.fmax * (1 + rel_pos * self.scale_fmax), both
\* sides being non-negative when the right side is positive.
BelowTolerance(imgs, F, i, imx) ==
    LET rel_pos == norm(VSub(FlatOf(imgs[i].positions), FlatOf(imgs[imx].positions)))
        tol == FMul(fmax, FAdd(Float(1), FMul(rel_pos, scale_fmax)))
    IN FLess(Float(0), tol) /\ FLess(MaxRowSq(F[i], natoms - 1), FMul(tol, tol))

\* The mutable array `forces` after the dynamic-relaxation test of image i.
Relax(imgs, F, i, imx) ==
    IF BelowTolerance(imgs, F, i, imx)
    THEN IF i - 1 = imx - 1 THEN F ELSE [F EXCEPT ![i] = ZeroVector]
    ELSE F

\* for i in range(1, self.nimages - 1): ...; t1 = t2; nt1 = nt2
RECURSIVE ProjectLoop(_, _, _, _, _, _, _, _)
ProjectLoop(imgs, e, imx, eqlength, i, t1, nt1, F) ==
    IF i > nimages - 2 THEN F
    ELSE LET t2 == Displacement(imgs, i + 1)
             nt2 == norm(t2)
             F1 == [F EXCEPT ![i] = ProjectImage(F[i], t1, nt1, t2, nt2, e, i, imx, eqlength)]
             F2 == IF dynamic_relaxation THEN Relax(imgs, F1, i, imx) ELSE F1
         IN ProjectLoop(imgs, e, imx, eqlength, i + 1, t2, nt2, F2)

\* The values the locals t1, t2 and tangent hold while image i is processed,
\* for each i of the loop of line 329, t1 being carried over by `t1 = t2`.
RECURSIVE TangentLoop(_, _, _, _, _, _)
TangentLoop(imgs, e, imx, i, t1, T) ==
    IF i > nimages - 2 THEN T
    ELSE LET t2 == Displacement(imgs, i + 1) IN
         TangentLoop(imgs, e, imx, i + 1, t2,
             [T EXCEPT ![i] = [t1 |-> t1, t2 |-> t2,
                               tangent |-> Tangent(t1, norm(t1), t2, norm(t2), e, i, imx)]])

Tangents(imgs, e) ==
    TangentLoop(imgs, e, ArgMax(e), 1, Displacement(imgs, 1),
                [i \in 1..(nimages - 2) |-> Unset])

\* Lines 316-426: the array get_forces returns, by interior image.
Project(imgs, e, raw) ==
    LET t1 == Displacement(imgs, 1)
        beeline == VSub(FlatOf(imgs[nimages - 1].positions), FlatOf(imgs[0].positions))
        eqlength == IF method = "eb"
                    THEN FDiv(norm(beeline), Float(nimages - 1)) ELSE NaN
    IN ProjectLoop(imgs, e, ArgMax(e), eqlength, 1, t1, norm(t1),
                   [i \in 1..(nimages - 2) |-> FlatOf(raw[i])])

\* ---------------------------- SingleCalculatorNEB.get_energies_and_forces

\* self.emax = -1.e32: a value below every energy of the model.
MinusHuge == -1000000

\* A SinglePointCalculator made from the calculator with handle h > 0 has the
\* handle -h.
IsSinglePoint(h) == h < 0

\* calculate_and_hide(i) on the state s = [images, calculators, emax]
calculate_and_hide(s, i) ==
    LET calc == s.images[i].calc
        hidden == IF s.calculators[i] = 0
                  THEN [s.calculators EXCEPT ![i] = calc] ELSE s.calculators
    IN IF calc = 0
       THEN [s EXCEPT !.calculators = hidden]
       ELSE [images |-> IF IsSinglePoint(calc) THEN s.images
                        ELSE [s.images EXCEPT ![i].calc = 0 - calc],
             calculators |-> hidden,
             emax |-> IF oracle.e[i] < s.emax THEN oracle.e[i] ELSE s.emax]

RECURSIVE HideLoop(_, _)
HideLoop(s, i) ==
    IF i > nimages - 2 THEN s ELSE HideLoop(calculate_and_hide(s, i), i + 1)

\* The body of get_energies_and_forces: [images, single, emax] afterwards.
get_energies_and_forces(imgs, sg, em) ==
    IF sg.energies_ok THEN [images |-> imgs, single |-> sg, emax |-> em]
    ELSE LET s0 == [images |-> imgs, calculators |-> sg.calculators, emax |-> MinusHuge]
             s1 == IF sg.first THEN calculate_and_hide(s0, 0) ELSE s0
             s2 == HideLoop(s1, 1)
             s3 == IF sg.first THEN calculate_and_hide(s2, nimages - 1) ELSE s2
         IN [images |-> s3.images,
             single |-> [calculators |-> s3.calculators, energies_ok |-> TRUE,
                         first |-> FALSE],
             emax |-> Slot(s3.emax)]

\* The real calculators get_energies_and_forces ran, as <<image, handle>> in
\* the order of the calls: those of the images whose calculator it replaced
\* by a single-point record.
RECURSIVE Invocations(_, _, _)
Invocations(before, after, i) ==
    IF i > nimages - 1 THEN << >>
    ELSE IF before[i].calc # after[i].calc
    THEN <<(<<i, before[i].calc>>)>> \o Invocations(before, after, i + 1)
    ELSE Invocations(before, after, i + 1)

\* The bookkeeping of calculator invocations after such a call:
\*   cycle      the invocations since the last set_positions / set_calculators
\*   ends       those of the endpoints since the user's last set_calculators
\*   installed  the list the user last passed to set_calculators, when it had
\*              one calculator per image
\*   gen        the number of set_calculators calls of the user
Recorded(c, before, after) ==
    IF c = Unset THEN c
    ELSE LET inv == Invocations(before, after, 0) IN
         [c EXCEPT !.cycle = @ \o inv,
                   !.ends = @ \o SelectSeq(inv, LAMBDA p : p[1] \in {0, nimages - 1})]

\* SingleCalculatorNEB.set_calculators(calculators), `calculators` a list
\* indexed from 0: [err, images, single] afterwards.
set_calculators(imgs, sg, calculators) ==
    LET n == Cardinality(DOMAIN calculators)
        flags == [sg EXCEPT !.energies_ok = FALSE, !.first = TRUE]
    IN IF n = nimages
       THEN [err |-> "ok", single |-> flags,
             images |-> [i \in DOMAIN imgs |-> [imgs[i] EXCEPT !.calc = calculators[i]]]]
       ELSE IF n = nimages - 2
       THEN [err |-> "ok", single |-> flags,
             images |-> [i \in DOMAIN imgs |->
                           IF 0 < i /\ i < nimages - 1
                           THEN [imgs[i] EXCEPT !.calc = calculators[i - 1]]
                           ELSE imgs[i]]]
       ELSE [err |-> "RuntimeError", single |-> flags, images |-> imgs]

\* SingleCalculatorNEB.get_calculators()
get_calculators(imgs, sg) ==
    [i \in DOMAIN imgs |->
        IF sg.calculators[i] = 0 THEN imgs[i].calc ELSE sg.calculators[i]]

\* SingleCalculatorNEB.set_positions(positions): [err, images, single].
SingleCalculatorNEB_set_positions(imgs, sg, positions) ==
    LET r == IF sg.energies_ok
             THEN set_calculators(imgs, sg, Slice(sg.calculators, 1, nimages - 1))
             ELSE [err |-> "ok", single |-> sg, images |-> imgs]
        w == NEBSetPositionsLoop(r.images, positions, 0, 0)
    IN [err |-> w.err, single |-> r.single, images |-> w.images]

\* ------------------------------------------------------------ band actions

\* A constructor call NEB(images, **args) or SingleCalculatorNEB(images, **args)
\* about to be made, and the tables of the calculators attached to the images.
InitBand ==
    /\ pc = "new"
    /\ cls \in {"NEB", "SingleCalculatorNEB"}
    /\ args \in (IF cls = "NEB" THEN NEBArgs ELSE SingleArgs)
    /\ \E M \in 3..MaxImages, path \in Paths, prof \in Profiles, push \in Pushes :
          /\ images = BandImages(M, path)
          /\ oracle = Oracle(M, prof, push)
    /\ natoms = 0
    /\ nimages = 0
    /\ method = "unset"
    /\ climb = FALSE
    /\ parallel = FALSE
    /\ remove_rotation_and_translation = FALSE
    /\ dynamic_relaxation = FALSE
    /\ worldsize = 1
    /\ get_all_forces = FALSE
    /\ fmax = Unset
    /\ scale_fmax = Unset
    /\ self_k = Unset
    /\ forces = Unset
    /\ single = Unset
    /\ nsteps = Unset
    /\ fmax_history = Unset
    /\ run = Unset
    /\ tangents = Unset
    /\ calls = Unset
    /\ ioformats = Unset
    /\ imported = Unset
    /\ modules = Unset
    /\ dc = Unset
    /\ energies = Unset
    /\ real_forces = Unset
    /\ imax = Unset
    /\ emax = Unset
    /\ residuals = Unset
    /\ last = Call("none", "ok", Unset)
    /\ invoked = {}
    /\ raised = {}
    /\ workers = Unset
    /\ l_energies = Unset
    /\ l_forces = Unset
    /\ ranks = Unset

bandFrame == <<worldsize, get_all_forces, remove_rotation_and_translation, cls,
               residuals, threadVars, ranks, args, oracle, runVars, ioVars, mdVars>>

\* NEB.__init__ / SingleCalculatorNEB.__init__
ConstructBand ==
    /\ pc = "new"
    /\ LET c == IF cls = "NEB" THEN NEB_init(images, args)
                ELSE SingleCalculatorNEB_init(images, args)
           M == Cardinality(DOMAIN images)
       IN IF c.err # "ok"
          THEN /\ pc' = "rejected"
               /\ last' = Call("__init__", c.err, Unset)
               /\ UNCHANGED <<natoms, nimages, method, climb, parallel,
                              dynamic_relaxation, fmax, scale_fmax, self_k, single>>
          ELSE /\ pc' = "idle"
               /\ last' = Call("__init__", "ok", Unset)
               /\ natoms' = AtomCount(images[0])
               /\ nimages' = M
               /\ method' = c.method
               /\ climb' = c.climb
               /\ parallel' = c.parallel
               /\ dynamic_relaxation' = c.dynamic_relaxation
               /\ fmax' = c.fmax
               /\ scale_fmax' = c.scale_fmax
               /\ self_k' = [j \in 0..(M - 2) |-> c.k]
               /\ single' = IF cls = "SingleCalculatorNEB"
                            THEN [calculators |-> [i \in 0..(M - 1) |-> 0],
                                  energies_ok |-> FALSE, first |-> TRUE]
                            ELSE Unset
    /\ UNCHANGED <<images, energies, real_forces, imax, emax, forces, tangents,
                   calls, invoked, raised, bandFrame>>

\* Construction alone, from every argument combination.
SpecConstruct == InitBand /\ [][ConstructBand]_vars

\* SingleCalculatorNEB.get_energies_and_forces()
SingleGetEnergiesAndForces ==
    /\ pc = "idle" /\ cls = "SingleCalculatorNEB"
    /\ LET r == get_energies_and_forces(images, single, emax) IN
          /\ images' = r.images
          /\ single' = r.single
          /\ emax' = r.emax
          /\ invoked' = {i \in DOMAIN images : images[i].calc # r.images[i].calc}
          /\ calls' = Recorded(calls, images, r.images)
    /\ raised' = {}
    /\ last' = Call("get_energies_and_forces", "ok", Unset)
    /\ UNCHANGED <<pc, natoms, nimages, method, climb, parallel, dynamic_relaxation,
                   fmax, scale_fmax, self_k, energies, real_forces, imax, forces,
                   tangents, bandFrame>>

\* get_forces() on a serial band: SingleCalculatorNEB.get_forces first hides
\* the calculators; then NEB.get_forces, lines 243-426, with the calculators
\* answering from their tables.
BandGetForces ==
    /\ pc = "idle" /\ cls \in {"NEB", "SingleCalculatorNEB"} /\ ~parallel
    /\ LET r == IF cls = "SingleCalculatorNEB"
                THEN get_energies_and_forces(images, single, emax)
                ELSE [images |-> images, single |-> single, emax |-> emax]
           e == [i \in 0..(nimages - 1) |->
                    IF (0 < i /\ i < nimages - 1) \/ method # "aseneb"
                    THEN Slot(oracle.e[i]) ELSE Unset]
       IN /\ images' = r.images
          /\ single' = r.single
          /\ calls' = Recorded(calls, images, r.images)
          /\ invoked' = {i \in DOMAIN images :
                            \/ images[i].calc # r.images[i].calc
                            \/ cls = "NEB" /\ e[i] # Unset}
          /\ IF HasSharedCalculator(r.images)
             THEN /\ last' = Call("get_forces", "ValueError", Unset)
                  /\ emax' = r.emax
                  /\ UNCHANGED <<energies, real_forces, imax, forces, tangents>>
             ELSE /\ Store(e, oracle.f)
                  /\ forces' = Project(r.images, e, oracle.f)
                  /\ tangents' = Tangents(r.images, e)
                  /\ last' = Call("get_forces", "ok", Unset)
    /\ raised' = {}
    /\ UNCHANGED <<pc, natoms, nimages, method, climb, parallel, dynamic_relaxation,
                   fmax, scale_fmax, self_k, bandFrame>>

NextBand ==
    \/ ConstructBand
    \/ SingleGetEnergiesAndForces
    \/ BandGetForces

SpecBand == InitBand /\ [][NextBand]_vars

\* ----------------------------------- the life of a SingleCalculatorNEB

\* The n fresh calculators of the user's g-th set_calculators call.
UserCalculators(g, n) == [i \in 0..(n - 1) |-> 10 * g + i + 1]

\* A SingleCalculatorNEB just constructed on M images carrying a calculator
\* each (handles 1..M).
InitSingle ==
    /\ pc = "idle"
    /\ cls = "SingleCalculatorNEB"
    /\ args \in SingleArgs
    /\ \E M \in 3..MaxImages :
          /\ images = BandImages(M, "even")
          /\ oracle = Oracle(M, "peak", "none")
          /\ nimages = M
          /\ self_k = [j \in 0..(M - 2) |-> args.k]
          /\ single = [calculators |-> [i \in 0..(M - 1) |-> 0],
                       energies_ok |-> FALSE, first |-> TRUE]
    /\ natoms = NAtoms
    /\ method = "aseneb"
    /\ climb = FALSE
    /\ parallel = FALSE
    /\ remove_rotation_and_translation = FALSE
    /\ dynamic_relaxation = FALSE
    /\ worldsize = 1
    /\ get_all_forces = FALSE
    /\ fmax = AsFloat(args.climb)
    /\ scale_fmax = Float(0)
    /\ forces = Unset
    /\ tangents = Unset
    /\ calls = [cycle |-> << >>, ends |-> << >>, installed |-> Unset, gen |-> 0]
    /\ nsteps = Unset
    /\ fmax_history = Unset
    /\ run = Unset
    /\ ioformats = Unset
    /\ imported = Unset
    /\ modules = Unset
    /\ dc = Unset
    /\ energies = Unset
    /\ real_forces = Unset
    /\ imax = Unset
    /\ emax = Unset
    /\ residuals = Unset
    /\ last = Call("__init__", "ok", Unset)
    /\ invoked = {}
    /\ raised = {}
    /\ workers = Unset
    /\ l_energies = Unset
    /\ l_forces = Unset
    /\ ranks = Unset

singleFrame == <<pc, natoms, nimages, method, climb, parallel, dynamic_relaxation,
                fmax, scale_fmax, self_k, energies, real_forces, imax, emax, forces,
                tangents, invoked, raised, bandFrame>>

\* The user's set_calculators(C), C a list of n fresh calculators.
SingleSetCalculators(n) ==
    /\ pc = "idle" /\ cls = "SingleCalculatorNEB" /\ calls # Unset
    /\ calls.gen < MaxGens
    /\ LET C == UserCalculators(calls.gen + 1, n)
           r == set_calculators(images, single, C)
       IN /\ images' = r.images
          /\ single' = r.single
          /\ last' = Call("set_calculators", r.err, C)
          /\ calls' = [cycle |-> << >>,
                       ends |-> IF r.err = "ok" /\ n = nimages THEN << >> ELSE calls.ends,
                       installed |-> IF r.err = "ok" /\ n = nimages THEN C ELSE Unset,
                       gen |-> calls.gen + 1]
    /\ UNCHANGED singleFrame

\* set_positions(x) by the optimizer.
SingleSetPositions(x) ==
    /\ pc = "idle" /\ cls = "SingleCalculatorNEB" /\ calls # Unset
    /\ LET r == SingleCalculatorNEB_set_positions(images, single,
                    Reshape(x, (nimages - 2) * natoms))
       IN /\ images' = r.images
          /\ single' = r.single
          /\ last' = Call("set_positions", r.err, x)
    /\ calls' = [calls EXCEPT !.cycle = << >>]
    /\ UNCHANGED singleFrame

\* get_calculators()
SingleGetCalculators ==
    /\ pc = "idle" /\ cls = "SingleCalculatorNEB" /\ calls # Unset
    /\ last' = Call("get_calculators", "ok", get_calculators(images, single))
    /\ UNCHANGED <<images, single, calls, singleFrame>>

NextSingle ==
    \/ \E n \in 1..MaxImages : SingleSetCalculators(n)
    \/ \E path \in Paths : SingleSetPositions(get_dofs(BandImages(nimages, path)))
    \/ SingleGetCalculators
    \/ SingleGetEnergiesAndForces
    \/ BandGetForces

SpecSingle == InitSingle /\ [][NextSingle]_vars

\* ------------------------------------------ SingleCalculatorNEB.refine

\* len(list)
Length(f) == Cardinality(DOMAIN f)

\* list.insert(j, x) on a list indexed from 0
InsertAt(f, j, x) ==
    [i \in 0..Length(f) |-> IF i < j THEN f[i] ELSE IF i = j THEN x ELSE f[i - 1]]

\* atoms.copy(): the copy carries no calculator.
Copy(img) == [img EXCEPT !.calc = 0]

\* SingleCalculatorNEB.interpolate(initial, final) with 0 <= initial < final:
\* images initial+1..final-1 are put on the line between the two.
InterpolateBetween(imgs, initial, final) ==
    LET n == final - initial
        pos1 == imgs[initial].positions
        pos2 == imgs[final].positions
    IN [i \in DOMAIN imgs |->
          IF initial < i /\ i < final
          THEN [imgs[i] EXCEPT !.positions =
                   [a \in DOMAIN pos1 |->
                       [c \in 0..(Dim - 1) |->
                           pos1[a][c] + ((i - initial) * (pos2[a][c] - pos1[a][c])) \div n]]]
          ELSE imgs[i]]

\* The new images of the segment from image j to image j+1 fall on the
\* integer grid of the model: dist /= n is exact.
OnGrid(imgs, j, steps) ==
    \A a \in DOMAIN imgs[j].positions : \A c \in 0..(Dim - 1) :
        (imgs[j + 1].positions[a][c] - imgs[j].positions[a][c]) % (steps + 1) = 0

\* self.k[j:j + 1] = [self.k[j] * (steps + 1)] * (steps + 1), without the
\* lengthening of the list.
RefinedSprings_SameLength(k, j, steps) ==
    [k EXCEPT ![j] = FMul(k[j], Float(steps + 1))]

\* self.k[j:j + 1] = [self.k[j] * (steps + 1)] * (steps + 1)
RefinedSprings(k, j, steps) ==
    [i \in 0..(Length(k) - 1 + steps) |->
        IF i < j THEN k[i]
        ELSE IF i <= j + steps THEN FMul(k[j], Float(steps + 1))
        ELSE k[i - steps]]

\* for k in range(steps): insert a copy of image j, and a None, at j + 1
RECURSIVE InsertCopies(_, _, _)
InsertCopies(s, j, c) ==
    IF c = 0 THEN s
    ELSE InsertCopies([s EXCEPT !.images = InsertAt(@, j + 1, Copy(s.images[j])),
                                !.calculators = InsertAt(@, j + 1, 0)],
                      j, c - 1)

\* The loop of refine over the n segments, s = [images, calculators, k].
RECURSIVE RefineLoop(_, _, _, _)
RefineLoop(s, i, j, steps) ==
    IF i = 0 THEN s
    ELSE LET ins == InsertCopies(s, j, steps)
             t == [images |-> InterpolateBetween(ins.images, j, j + steps + 1),
                   calculators |-> ins.calculators,
                   k |-> RefinedSprings(s.k, j, steps)]
         IN RefineLoop(t, i - 1, j + steps + 1, steps)

\* The image index `end` stands for.
EndOf(end) == IF end < 0 THEN nimages + end ELSE end

\* refine(steps, begin, end) on segments whose new images fall on the grid.
Refine(steps, begin, end) ==
    /\ pc = "idle" /\ cls = "SingleCalculatorNEB"
    /\ 0 <= begin /\ begin <= EndOf(end) /\ EndOf(end) <= nimages - 1
    /\ nimages + (EndOf(end) - begin) * steps <= MaxRefined
    /\ \A j \in begin..(EndOf(end) - 1) : OnGrid(images, j, steps)
    /\ LET r == RefineLoop([images |-> images, calculators |-> single.calculators,
                            k |-> self_k], EndOf(end) - begin, begin, steps)
       IN /\ images' = r.images
          /\ single' = [single EXCEPT !.calculators = r.calculators]
          /\ self_k' = r.k
          /\ nimages' = Length(r.images)
    /\ last' = Call("refine", "ok", [steps |-> steps, begin |-> begin, end |-> end])
    /\ UNCHANGED <<pc, natoms, method, climb, parallel, dynamic_relaxation, fmax,
                   scale_fmax, energies, real_forces, imax, emax, forces, tangents,
                   calls, invoked, raised, bandFrame>>

\* The numbers of images refine inserts into a segment in this model.
RefineSteps == {0, 1}

NextRefine ==
    \E steps \in RefineSteps, begin \in 0..(MaxRefined - 1), end \in -1..(MaxRefined - 1) :
        Refine(steps, begin, end)

SpecRefine == InitSingle /\ [][NextRefine]_vars

\* --------------------------------------------------------- interpolate

\* interpolate(images): d = (pos2 - pos1) / (len(images) - 1), and image i is
\* put at pos1 + i * d.
interpolate(imgs) ==
    LET pos1 == imgs[0].positions
        pos2 == imgs[Length(imgs) - 1].positions
    IN [i \in DOMAIN imgs |->
          IF 0 < i /\ i < Length(imgs) - 1
          THEN [imgs[i] EXCEPT !.positions =
                   [a \in DOMAIN pos1 |->
                       [c \in 0..(Dim - 1) |->
                           pos1[a][c] + (i * (pos2[a][c] - pos1[a][c])) \div (Length(imgs) - 1)]]]
          ELSE imgs[i]]

\* d /= (len(images) - 1.0) is exact on the integer grid of the model.
Divisible(imgs) ==
    \A a \in DOMAIN imgs[0].positions : \A c \in 0..(Dim - 1) :
        (imgs[Length(imgs) - 1].positions[a][c] - imgs[0].positions[a][c])
            % (Length(imgs) - 1) = 0

\* NEB.interpolate, lines 217-218: the images handed to interpolate.
Preprocessed(imgs) ==
    IF remove_rotation_and_translation
    THEN [imgs EXCEPT ![nimages - 1].positions =
             minimize_rotation_and_translation(imgs[0], imgs[nimages - 1])]
    ELSE imgs

\* NEB.interpolate(method): the images afterwards.
NEB_interpolate(imgs) == interpolate(Preprocessed(imgs))

\* A chain just constructed on images that are translates of one another
\* (image k shifted by k along x).
InitInterpolate ==
    /\ pc = "idle"
    /\ cls \in {"NEB", "SingleCalculatorNEB"}
    /\ args = Unset
    /\ \E M \in 3..MaxImages :
          /\ images = ImageList(M, "own", "none", 1)
          /\ nimages = M
          /\ self_k = [j \in 0..(M - 2) |-> NEBDefaults.k]
          /\ single = IF cls = "SingleCalculatorNEB"
                       THEN [calculators |-> [i \in 0..(M - 1) |-> 0],
                             energies_ok |-> FALSE, first |-> TRUE]
                       ELSE Unset
    /\ natoms = NAtoms
    /\ method = "aseneb"
    /\ climb = FALSE
    /\ parallel = FALSE
    /\ remove_rotation_and_translation \in (IF cls = "NEB" THEN BOOLEAN ELSE {FALSE})
    /\ dynamic_relaxation = FALSE
    /\ worldsize = 1
    /\ get_all_forces = FALSE
    /\ fmax = IF cls = "NEB" THEN NEBDefaults.fmax ELSE Float(0)
    /\ scale_fmax = Float(0)
    /\ oracle = Oracle(nimages, "peak", "none")
    /\ forces = Unset
    /\ tangents = Unset
    /\ calls = Unset
    /\ nsteps = Unset
    /\ fmax_history = Unset
    /\ run = Unset
    /\ ioformats = Unset
    /\ imported = Unset
    /\ modules = Unset
    /\ dc = Unset
    /\ energies = Unset
    /\ real_forces = Unset
    /\ imax = Unset
    /\ emax = Unset
    /\ residuals = Unset
    /\ last = Call("__init__", "ok", Unset)
    /\ invoked = {}
    /\ raised = {}
    /\ workers = Unset
    /\ l_energies = Unset
    /\ l_forces = Unset
    /\ ranks = Unset

idppFrame == <<chainVars, threadVars, ranks, args, fmax, scale_fmax, self_k, oracle,
               calls, nsteps, fmax_history, ioVars, mdVars>>

\* chain.interpolate('linear').  SingleCalculatorNEB overrides interpolate
\* with the signature (initial=0, final=-1, mic=False): the string is bound to
\* `initial`, and n = final - initial (line 492) raises TypeError.
InterpolateLinear ==
    /\ pc = "idle" /\ cls \in {"NEB", "SingleCalculatorNEB"}
    /\ IF cls = "SingleCalculatorNEB"
       THEN /\ last' = Call("interpolate", "TypeError", "linear")
            /\ UNCHANGED images
       ELSE /\ Divisible(Preprocessed(images))
            /\ images' = NEB_interpolate(images)
            /\ last' = Call("interpolate", "ok", "linear")
    /\ invoked' = {}
    /\ raised' = {}
    /\ UNCHANGED <<pc, chainVars, stepVars, threadVars, ranks, bandVars, runVars,
                   ioVars, mdVars>>

\* chain.set_dofs(x) through the set_positions of the chain's class.
ChainSetDofs(x) ==
    /\ pc = "idle" /\ cls \in {"NEB", "SingleCalculatorNEB"}
    /\ LET r == IF cls = "SingleCalculatorNEB"
                THEN SingleCalculatorNEB_set_positions(images, single,
                         Reshape(x, (nimages - 2) * natoms))
                ELSE [err |-> set_dofs(images, x).err, single |-> single,
                      images |-> set_dofs(images, x).images]
       IN /\ images' = r.images
          /\ single' = r.single
          /\ last' = Call("set_dofs", r.err, x)
    /\ invoked' = {}
    /\ raised' = {}
    /\ UNCHANGED <<pc, run, energies, real_forces, imax, emax, residuals, forces,
                   tangents, idppFrame>>

\* The calculator IDPP(d1 + i * d, mic=mic) made for image i.
IDPPHandle(i) == 100 + i

\* for image, calc in zip(neb.images, real_calcs): image.calc = calc, on the
\* interior images only.
RestoreCalculators_Interior(imgs, real_calcs) ==
    [i \in DOMAIN imgs |->
        IF 0 < i /\ i < Length(imgs) - 1 THEN [imgs[i] EXCEPT !.calc = real_calcs[i]]
        ELSE imgs[i]]

\* for image, calc in zip(neb.images, real_calcs): image.calc = calc
RestoreCalculators(imgs, real_calcs) ==
    [i \in DOMAIN imgs |-> [imgs[i] EXCEPT !.calc = real_calcs[i]]]

\* idpp_interpolate(chain, steps=steps), lines 626-638, on a chain that does
\* not realign its images: the calculators are put aside and every image is
\* given an IDPP calculator.  `before` keeps what the images held when the
\* call was made.
IdppStart(steps) ==
    /\ pc = "idle" /\ cls \in {"NEB", "SingleCalculatorNEB"}
    /\ ~remove_rotation_and_translation
    /\ pc' = "idpp"
    /\ run' = [real_calcs |-> [i \in DOMAIN images |-> images[i].calc],
               before |-> [i \in DOMAIN images |-> images[i].calc],
               steps |-> steps, step |-> 0, at |-> "forces"]
    /\ images' = [i \in DOMAIN images |-> [images[i] EXCEPT !.calc = IDPPHandle(i)]]
    /\ last' = Call("idpp_interpolate", "running", Unset)
    /\ invoked' = {}
    /\ raised' = {}
    /\ UNCHANGED <<single, energies, real_forces, imax, emax, residuals, forces,
                   tangents, idppFrame>>

\* opt.run(fmax, steps), line 639: the optimizer asks the chain for its forces;
\* it stops when they are converged (`conv`) or the step limit is reached.
IdppForces(conv) ==
    /\ pc = "idpp" /\ run.at = "forces"
    /\ LET r == IF cls = "SingleCalculatorNEB"
                THEN get_energies_and_forces(images, single, emax)
                ELSE [images |-> images, single |-> single, emax |-> emax]
           e == [i \in 0..(nimages - 1) |->
                    IF 0 < i /\ i < nimages - 1 THEN Slot(oracle.e[i]) ELSE Unset]
       IN /\ images' = r.images
          /\ single' = r.single
          /\ Store(e, oracle.f)
          /\ forces' = Project(r.images, e, oracle.f)
          /\ tangents' = Tangents(r.images, e)
          /\ invoked' = {i \in DOMAIN images : images[i].calc # r.images[i].calc \/ e[i] # Unset}
    /\ raised' = {}
    /\ run' = [run EXCEPT !.at = IF conv \/ run.step >= run.steps THEN "restore"
                                  ELSE "step"]
    /\ UNCHANGED <<pc, last, idppFrame>>

\* A step of the optimizer: chain.set_positions(x).
IdppStep(x) ==
    /\ pc = "idpp" /\ run.at = "step"
    /\ LET r == IF cls = "SingleCalculatorNEB"
                THEN SingleCalculatorNEB_set_positions(images, single,
                         Reshape(x, (nimages - 2) * natoms))
                ELSE [err |-> "ok", single |-> single,
                      images |-> NEBSetPositionsLoop(images,
                                     Reshape(x, (nimages - 2) * natoms), 0, 0).images]
       IN /\ images' = r.images
          /\ single' = r.single
    /\ run' = [run EXCEPT !.at = "forces", !.step = @ + 1]
    /\ invoked' = {}
    /\ raised' = {}
    /\ UNCHANGED <<pc, last, energies, real_forces, imax, emax, residuals, forces,
                   tangents, idppFrame>>

\* Lines 640-641: the calculators put aside are given back.
IdppReturn ==
    /\ pc = "idpp" /\ run.at = "restore"
    /\ images' = RestoreCalculators(images, run.real_calcs)
    /\ pc' = "idle"
    /\ run' = [run EXCEPT !.at = "returned"]
    /\ last' = Call("idpp_interpolate", "ok", Unset)
    /\ UNCHANGED <<single, energies, real_forces, imax, emax, residuals, forces,
                   tangents, invoked, raised, idppFrame>>

NextInterpolate ==
    \/ \E x \in DofVectors : ChainSetDofs(x)
    \/ InterpolateLinear
    \/ \E steps \in 0..MaxSteps : IdppStart(steps)
    \/ \E conv \in BOOLEAN : IdppForces(conv)
    \/ \E x \in DofVectors : IdppStep(x)
    \/ IdppReturn

SpecInterpolate == InitInterpolate /\ [][NextInterpolate]_vars

\* ------------------------------------------------------------ PreconMEP.run

\* PreconMEP.get_residual: np.max(self.residuals)
get_residual(res) ==
    Val(res[CHOOSE i \in DOMAIN res : \A j \in DOMAIN res : Val(res[j]) <= Val(res[i])])

\* Line 1043: if self.get_residual() <= fmax: break
Converged_Never(res, fm) == FALSE

Converged(res, fm) == get_residual(res) <= fm

\* The flat index in X of the x coordinate of atom 0 of interior image i.
XIndex(i) == Dim * natoms * (i - 1)

\* X + alpha * F for a force that moves atom 0 of interior image i by d[i]
\* along x.
Shifted(X, d) ==
    [j \in DOMAIN X |->
        IF \E i \in 1..(nimages - 2) : j = XIndex(i)
        THEN X[j] + d[(j \div (Dim * natoms)) + 1]
        ELSE X[j]]

\* The displacements of an image along x in one step of the run.
Shifts == {-1, 0, 1}

\* The images stay in their order along the band (two may coincide).
Ordered(imgs) ==
    \A i \in 1..(nimages - 1) : imgs[i - 1].positions[0][0] <= imgs[i].positions[0][0]

\* x_spline(np.linspace(0, 1, nimages)[1:-1]).reshape(-1), for the spline that
\* spline_fit returns with an identity preconditioner on images in order
\* along x: the knots s are proportional to x, the spline of collinear data
\* is that line, and the M equispaced values of s give equally spaced images
\* between the endpoints (which are a multiple of M-1 apart here).
Resampled(imgs) ==
    LET x0 == imgs[0].positions[0][0]
        xL == imgs[nimages - 1].positions[0][0]
        P == [r \in 0..((nimages - 2) * natoms - 1) |->
                 LET i == (r \div natoms) + 1
                     a == r % natoms
                 IN [c \in 0..(Dim - 1) |->
                        IF a = 0 /\ c = 0
                        THEN x0 + (i * (xL - x0)) \div (nimages - 1)
                        ELSE imgs[i].positions[a][c]]]
    IN Flatten(P, (nimages - 2) * natoms)

\* PreconMEP.log: self.fmax_history.append(self.get_residual())
log_Overwriting(hist, res) == <<get_residual(res)>>

log(hist, res) == Append(hist, get_residual(res))

\* PreconMEP.callback(X): log(), nsteps += 1 and, for the string method,
\* set_dofs(X), spline_fit() and X[:] = the resampled positions.  The result:
\* [err, images, X].
callback(imgs, X) ==
    IF method = "string"
    THEN LET set == set_dofs(imgs, X).images IN
         IF SplineInfeasible(set)
         THEN [err |-> "NumericError", images |-> set, X |-> X]
         ELSE [err |-> "ok", images |-> set, X |-> Resampled(set)]
    ELSE [err |-> "ok", images |-> imgs, X |-> X]

\* The arguments of run(fmax, steps, step_selection) in this model; of the two
\* valid step selections only 'static' is followed (the other hands the loop
\* to ode12r).
RunArgs ==
    [fmax : {0, 1}, steps : 0..MaxSteps, step_selection : {"static", "euler"}]

\* A PreconMEP chain after construction, on a band of equally spaced images,
\* every image with its own calculator.
InitRun ==
    /\ pc = "idle"
    /\ cls = "PreconMEP"
    /\ \E M \in 3..MaxImages :
          /\ images = BandImages(M, "even")
          /\ nimages = M
          /\ residuals = [i \in 0..(M - 3) |-> Unset]
    /\ natoms = NAtoms
    /\ method \in {"neb", "string"}
    /\ climb = FALSE
    /\ parallel = FALSE
    /\ remove_rotation_and_translation = FALSE
    /\ dynamic_relaxation = FALSE
    /\ worldsize = 1
    /\ get_all_forces = FALSE
    /\ energies = Unset
    /\ real_forces = Unset
    /\ imax = Unset
    /\ emax = Unset
    /\ last = Call("__init__", "ok", Unset)
    /\ invoked = {}
    /\ raised = {}
    /\ workers = Unset
    /\ l_energies = Unset
    /\ l_forces = Unset
    /\ ranks = Unset
    /\ args = Unset
    /\ fmax = Unset
    /\ scale_fmax = Unset
    /\ self_k = Unset
    /\ oracle = Unset
    /\ forces = Unset
    /\ single = Unset
    /\ nsteps = 0
    /\ fmax_history = << >>
    /\ run = Unset
    /\ tangents = Unset
    /\ calls = Unset
    /\ ioformats = Unset
    /\ imported = Unset
    /\ modules = Unset
    /\ dc = Unset

runFrame == <<chainVars, energies, real_forces, imax, emax, invoked, raised,
              threadVars, ranks, bandVars, ioVars, mdVars>>

\* run(...) is called: lines 1022-1026 and 1040.
RunStart(a) ==
    /\ pc = "idle" /\ cls = "PreconMEP" /\ run = Unset
    /\ IF a.step_selection # "static"
       THEN /\ last' = Call("run", "ValueError", Unset)
            /\ UNCHANGED <<pc, run>>
       ELSE /\ pc' = "run"
            /\ run' = [fmax |-> a.fmax, steps |-> a.steps, step |-> 0, evals |-> 0,
                       at |-> "eval", X |-> get_dofs(images)]
            /\ last' = Call("run", "running", Unset)
    /\ UNCHANGED <<images, residuals, nsteps, fmax_history, runFrame>>

\* Lines 1041-1044: the loop test, F = self.force_function(X) -- set_dofs(X)
\* and get_forces(), in which a calculator or the spline fit may raise -- and
\* the convergence test.
RunEvaluate ==
    /\ pc = "run" /\ run.at = "eval"
    /\ IF run.step >= run.steps
       THEN /\ pc' = "idle"
            /\ run' = [run EXCEPT !.at = "returned"]
            /\ last' = Call("run", "ok", Unset)
            /\ UNCHANGED <<images, residuals>>
       ELSE LET set == set_dofs(images, run.X).images IN
            /\ images' = set
            /\ \E result \in {"ok", "CalcError"} :
                  IF result # "ok" \/ SplineInfeasible(set)
                  THEN /\ pc' = "idle"
                       /\ run' = [run EXCEPT !.at = "raised", !.evals = @ + 1]
                       /\ last' = Call("run", IF result # "ok" THEN result
                                              ELSE "NumericError", Unset)
                       /\ UNCHANGED residuals
                  ELSE \E r \in [0..(nimages - 3) -> 0..MaxResid] :
                          /\ residuals' = [i \in 0..(nimages - 3) |-> Slot(r[i])]
                          /\ IF Converged(residuals', run.fmax)
                             THEN /\ pc' = "idle"
                                  /\ run' = [run EXCEPT !.at = "returned",
                                                        !.evals = @ + 1]
                                  /\ last' = Call("run", "ok", Unset)
                             ELSE /\ pc' = "run"
                                  /\ run' = [run EXCEPT !.at = "update",
                                                        !.evals = @ + 1]
                                  /\ last' = Call("force_function", "ok", Unset)
    /\ UNCHANGED <<nsteps, fmax_history, runFrame>>

\* Lines 1045-1046: X += alpha * F and self.callback(X), for a force F that
\* moves at most one image and keeps the images in order.
RunCallback ==
    /\ pc = "run" /\ run.at = "update"
    /\ \E d \in [1..(nimages - 2) -> Shifts] :
          LET X == Shifted(run.X, d)
              c == callback(images, X)
          IN /\ \A i, j \in DOMAIN d : (d[i] # 0 /\ d[j] # 0) => i = j
             /\ Ordered(set_dofs(images, X).images)
             /\ fmax_history' = log(fmax_history, residuals)
             /\ nsteps' = nsteps + 1
             /\ images' = c.images
             /\ IF c.err # "ok"
                THEN /\ pc' = "idle"
                     /\ run' = [run EXCEPT !.at = "raised", !.X = c.X]
                     /\ last' = Call("run", c.err, Unset)
                ELSE /\ pc' = "run"
                     /\ run' = [run EXCEPT !.at = "eval", !.X = c.X, !.step = @ + 1]
                     /\ last' = Call("callback", "ok", Unset)
    /\ UNCHANGED <<residuals, runFrame>>

NextRun ==
    \/ \E a \in RunArgs : RunStart(a)
    \/ RunEvaluate
    \/ RunCallback

SpecRun == InitRun /\ [][NextRun]_vars

\* The interpreter keeps running the thread that called run.
SpecRunFair == SpecRun /\ WF_vars(RunEvaluate) /\ WF_vars(RunCallback)

\* ------------------------------------------------------------------ claims

LastImage == Cardinality(DOMAIN images) - 1

\* C1 (as claimed): no step of any call sequence -- get_forces, set_positions,
\* set_dofs, under any option -- changes the positions of image 0 or of image
\* M-1.
C1_EndpointsFixed ==
    [][/\ images'[0].positions = images[0].positions
       /\ images'[LastImage].positions = images[LastImage].positions]_vars

\* C2 (as claimed): every set_dofs(x) completes, and get_dofs() then returns x.
C2_DofsRoundTrip ==
    last.op = "set_dofs" => (last.result = "ok" /\ get_dofs(images) = last.arg)

\* Image a differs from image b in atom count, periodic mask or ordered species.
C3_Differs(a, b) ==
    \/ AtomCount(a) # AtomCount(b)
    \/ a.pbc # b.pbc
    \/ a.numbers # b.numbers

\* C3: a constructor call on a list with an image that differs from image 0 in
\* atom count, periodic mask or ordered atomic numbers raises, and every chain
\* that exists has all its images equal in these three respects.
C3_ConstructionRejects ==
    /\ (pc # "new" /\ \E j \in DOMAIN images : C3_Differs(images[j], images[0]))
          => (pc = "rejected" /\ last.op = "__init__" /\ last.result # "ok")
    /\ pc \in {"idle", "threads"}
          => \A j \in DOMAIN images : ~C3_Differs(images[j], images[0])

\* C3's case: a list whose images have equal atom counts and masks but species
\* in another order was rejected.
C3_Witness ==
    /\ pc = "rejected"
    /\ last.result = "Images have atoms in different orders"
    /\ \E j \in DOMAIN images :
          /\ AtomCount(images[j]) = AtomCount(images[0])
          /\ images[j].pbc = images[0].pbc
          /\ images[j].numbers # images[0].numbers

\* Two images hold the same calculator instance (not None).
C4_Shares ==
    \E j, k \in DOMAIN images :
        j # k /\ images[j].calc # 0 /\ images[j].calc = images[k].calc

\* C4: when two images hold the same calculator, NEB.get_forces -- and
\* PreconMEP.get_forces without get_all_forces callback -- raises the
\* configuration error, invokes no calculator and leaves energies, real_forces,
\* imax, emax, residuals and every image as they were.
C4_SharedCalculatorRaises ==
    [][(/\ pc = "idle"
        /\ C4_Shares
        /\ ~get_all_forces
        /\ last'.op = "get_forces")
       => (/\ last'.result = "ValueError"
           /\ invoked' = {}
           /\ pc' = "idle"
           /\ UNCHANGED <<energies, real_forces, imax, emax, residuals, images>>)]_vars

\* C4's case: a band whose energies had been computed, then given a shared
\* calculator, raised the configuration error on get_forces.
C4_Witness ==
    /\ cls = "NEB"
    /\ energies # Unset
    /\ C4_Shares
    /\ last = Call("get_forces", "ValueError", Unset)

\* C5 (as claimed): on a chain with dynamic_relaxation and parallel both on, no
\* get_forces, set_positions or set_dofs call completes normally.
C5_NoCallCompletes ==
    (/\ pc = "idle" /\ cls = "NEB" /\ dynamic_relaxation /\ parallel
     /\ last.op \in {"get_forces", "set_positions", "set_dofs"})
    => last.result # "ok"

\* C5 (amended): on a chain of M >= 3 images with dynamic_relaxation and
\* parallel both on, every set_positions and set_dofs call raises the
\* configuration error and changes no image.
C5_SetPositionsRejects ==
    [][(/\ pc = "idle" /\ cls = "NEB" /\ dynamic_relaxation /\ parallel
        /\ last'.op \in {"set_positions", "set_dofs"})
       => (last'.result = "ValueError" /\ images' = images)]_vars

\* C5's case: set_positions was called on such a chain and raised.
C5_Witness ==
    /\ cls = "NEB" /\ dynamic_relaxation /\ parallel
    /\ last.op = "set_positions"
    /\ last.result = "ValueError"

\* C8 (as claimed): in serial and in threaded mode, a get_forces call during
\* which a calculator raised ends by raising that failure.
C8_FailurePropagates ==
    (/\ pc = "idle" /\ cls = "NEB" /\ worldsize = 1
     /\ last.op = "get_forces" /\ raised # {})
    => last.result = "CalcError"

\* C9 (as claimed): once every worker is joined, and before imax is computed,
\* every interior energy slot and force slot has been written.
C9_SlotsWrittenAtJoin ==
    (pc = "threads" /\ AllJoined)
    => \A i \in 1..(nimages - 2) : l_energies[i] # Unset /\ l_forces[i] # Unset

\* C6 (as claimed): in distributed mode, if the evaluation of its interior
\* image raised on some rank, every rank that has left get_forces left it by
\* raising after exactly one reduction and no broadcast; and if no request
\* raised on any rank, a rank that returned made one reduction and then the
\* 2*(M-2) broadcasts in ascending image order.
C6_SymmetricFailure ==
    /\ (\E q \in Ranks : ranks[q].failed = "interior")
          => \A r \in Ranks :
                ranks[r].at \in {"done", "raised"}
                   => (/\ ranks[r].at = "raised"
                       /\ ranks[r].nsum = 1
                       /\ ranks[r].bcasts = << >>)
    /\ (\A q \in Ranks : ranks[q].failed = "none")
          => \A r \in Ranks :
                ranks[r].at = "done"
                   => (/\ ranks[r].nsum = 1
                       /\ ranks[r].bcasts =
                             [k \in 1..(2 * (nimages - 2)) |-> DistBroadcastOf(k)])

\* C7 (as claimed): whichever request raises on whichever rank, no rank waits
\* in a reduction that another rank, having left get_forces, never joins.
C7_NoOrphanedCollective ==
    ~ \E r, q \in Ranks :
         /\ ranks[r].at = "sum"
         /\ ranks[q].at = "raised"
         /\ ranks[q].nsum = 0

\* C10: on a communicator of size W > 1 with W % (M-2) = 0, the root of every
\* interior image is a rank assigned to that image, and a rank that returns
\* from get_forces holds computed data in every interior slot.
C10_RootComputesItsImage ==
    /\ \A i \in 1..(nimages - 2) :
          DistRoot(i) \in Ranks /\ DistImage(DistRoot(i)) = i
    /\ \A r \in Ranks :
          ranks[r].at = "done"
             => \A i \in 1..(nimages - 2) :
                   {<<i, "e">>, <<i, "f">>} \subseteq ranks[r].valid

\* C10's case: with several ranks per image, a rank that is not a root has
\* returned from get_forces.
C10_Witness ==
    /\ worldsize > nimages - 2
    /\ nimages > 3
    /\ \E r \in Ranks :
          /\ ranks[r].at = "done"
          /\ \A i \in 1..(nimages - 2) : DistRoot(i) # r

\* C11: after a NEB.get_forces call that returned with no calculator failure,
\* imax is an interior image, no interior image has a higher energy than image
\* imax, emax is the energy of image imax and get_potential_energy() returns
\* it; an endpoint of higher energy does not change this.
C11_ImaxIsInteriorArgmax ==
    (/\ pc = "idle" /\ cls = "NEB"
     /\ last = Call("get_forces", "ok", Unset)
     /\ raised = {})
    => (/\ imax # Unset
        /\ Val(imax) \in 1..(nimages - 2)
        /\ \A j \in 1..(nimages - 2) :
              /\ energies[j] = Slot(PotentialEnergy(images[j]))
              /\ Val(energies[j]) <= Val(energies[Val(imax)])
        /\ emax = energies[Val(imax)]
        /\ get_potential_energy = energies[Val(imax)])

\* C11's case: get_forces returned on a band whose final endpoint has a higher
\* stored energy than every interior image.
C11_Witness ==
    /\ pc = "idle" /\ cls = "NEB"
    /\ last = Call("get_forces", "ok", Unset)
    /\ raised = {}
    /\ energies[nimages - 1] # Unset
    /\ \A j \in 1..(nimages - 2) :
          Val(energies[j]) < Val(energies[nimages - 1])

\* C15 (as claimed): with dynamic_relaxation on and parallel off, once forces
\* have been evaluated, every set_positions call completes.
C15_DynamicSetPositionsCompletes ==
    (/\ pc = "idle" /\ cls = "NEB" /\ dynamic_relaxation /\ ~parallel
     /\ energies # Unset
     /\ last.op = "set_positions")
    => last.result = "ok"

\* A serial band whose last call, get_forces, returned.
BandEvaluated ==
    /\ pc = "idle" /\ cls \in {"NEB", "SingleCalculatorNEB"}
    /\ oracle # Unset
    /\ last = Call("get_forces", "ok", Unset)

\* C12 (as claimed): when all interior images have the same energy, get_forces
\* sets imax = 1.
C12_TieGivesFirstImage ==
    (/\ BandEvaluated
     /\ \A i, j \in 1..(nimages - 2) : energies[i] = energies[j])
    => imax = Slot(1)

\* C13 (as claimed): get_forces treats image imax by the climbing rule exactly
\* when the chain was constructed with climb=True, and the climb argument
\* leaves fmax at its default.
C13_ClimbArgumentHonoured ==
    BandEvaluated
    => (/\ Climbs(Val(imax), Val(imax)) = args.climb
        /\ cls = "SingleCalculatorNEB" => fmax = NEBDefaults.fmax)

\* C14 (as claimed): with dynamic relaxation on, when every interior image of
\* the returned array is below its tolerance, the returned array is all zero.
C14_AllBelowToleranceGivesZero ==
    (/\ BandEvaluated /\ dynamic_relaxation
     /\ \A i \in 1..(nimages - 2) : BelowTolerance(images, forces, i, Val(imax)))
    => \A i \in 1..(nimages - 2) : forces[i] = ZeroVector

\* C16 (as claimed): with calculators returning energy 0 and force 0, climb
\* off and equally spaced collinear images, every effective force get_forces
\* returns is zero, in each of the three methods.
C16_ConstantCalculatorGivesZero ==
    (/\ BandEvaluated /\ cls = "NEB" /\ ~args.climb
     /\ oracle = Oracle(nimages, "flat", "none")
     /\ images = BandImages(nimages, "even"))
    => \A i \in 1..(nimages - 2) : forces[i] = ZeroVector

\* C17 (as claimed): after SingleCalculatorNEB.get_energies_and_forces, emax is
\* the largest of the interior images' energies.
C17_EmaxIsInteriorMaximum ==
    (/\ pc = "idle" /\ cls = "SingleCalculatorNEB"
     /\ last = Call("get_energies_and_forces", "ok", Unset))
    => (/\ emax # Unset
        /\ \E i \in 1..(nimages - 2) : Val(emax) = oracle.e[i]
        /\ \A i \in 1..(nimages - 2) : oracle.e[i] <= Val(emax))

\* C18 (as claimed): in method eb with climb on, an image next to imax whose
\* energy equals that of both its neighbours gets a well-defined effective
\* force: its raw force without the component along the band.
C18_ZeroEnergyGapScalesSpringByZero ==
    \A i \in 1..(nimages - 2) :
        (/\ BandEvaluated /\ method = "eb" /\ climb /\ ~dynamic_relaxation
         /\ AbsInt(i - Val(imax)) = 1
         /\ energies[i - 1] = energies[i] /\ energies[i + 1] = energies[i])
        => forces[i] = [j \in Flat |->
                           IF j = 0 THEN Float(0)
                           ELSE Float(real_forces[i][j \div Dim][j % Dim])]

\* A static run is past its first callback and is not inside a step.
AfterCallback ==
    /\ cls = "PreconMEP" /\ run # Unset /\ nsteps > 0
    /\ run.at \in {"eval", "returned"}

\* C19 (as claimed): in the string method, after every callback of a run --
\* the last one before run returns included -- the interior images sit on the
\* spline at the M equispaced values of s, and the endpoint images are where
\* they were before the run.
C19_ImagesResampledAfterCallback ==
    (AfterCallback /\ method = "string")
    => (/\ get_dofs(images) = Resampled(images)
        /\ images[0] = BandImages(nimages, "even")[0]
        /\ images[LastImage] = BandImages(nimages, "even")[LastImage])

\* What holds at every point of a static run: no more than `steps` force
\* evaluations; a position update follows an evaluation only when its largest
\* residual exceeds fmax; a run that returned at a converged evaluation made
\* one callback fewer than evaluations and left the images at the evaluated
\* positions; a run that used up its steps made as many callbacks as
\* evaluations.
C20_RunBounded ==
    (cls = "PreconMEP" /\ run # Unset)
    => (/\ run.evals <= run.steps
        /\ nsteps <= run.evals
        /\ Len(fmax_history) = nsteps
        /\ run.at = "update" => get_residual(residuals) > run.fmax
        /\ (run.at = "returned" /\ run.evals > 0
              /\ get_residual(residuals) <= run.fmax)
           => (nsteps = run.evals - 1 /\ get_dofs(images) = run.X)
        /\ (run.at = "returned"
              /\ (run.evals = 0 \/ get_residual(residuals) > run.fmax))
           => (nsteps = run.evals /\ run.evals = run.steps))

\* C20: PreconMEP.run with step_selection 'static' always terminates, after at
\* most `steps` force evaluations, at the first evaluation whose largest
\* residual is at most fmax, with no position update and no callback after
\* that evaluation.
C20_StaticRunTerminates ==
    /\ [](C20_RunBounded)
    /\ (pc = "run") ~> (pc = "idle" /\ run # Unset /\ run.at \in {"returned", "raised"})

\* A run that returned at a converged second evaluation, after one callback.
C20_Witness ==
    /\ cls = "PreconMEP" /\ run # Unset
    /\ run.at = "returned" /\ run.evals = 2 /\ nsteps = 1 /\ run.steps = 2
    /\ get_residual(residuals) <= run.fmax

\* C21: during a run, nsteps and fmax_history change only in a callback, which
\* adds one to nsteps and appends one entry -- the largest residual of the
\* evaluation before it -- to fmax_history, leaving the earlier entries as they
\* were; a step whose force evaluation raises ends the run with that error
\* and with nsteps and fmax_history as they were before the step.
C21_StepCounterAndHistory ==
    [][(cls = "PreconMEP" /\ pc = "run")
       => /\ (run.at = "update")
             => (/\ nsteps' = nsteps + 1
                 /\ Len(fmax_history') = Len(fmax_history) + 1
                 /\ SubSeq(fmax_history', 1, Len(fmax_history)) = fmax_history
                 /\ fmax_history'[Len(fmax_history')] = get_residual(residuals))
          /\ (run.at = "eval")
             => (/\ nsteps' = nsteps /\ fmax_history' = fmax_history
                 /\ (run'.at = "raised")
                    => (pc' = "idle"
                        /\ last'.op = "run"
                        /\ last'.result \in {"CalcError", "NumericError"}))]_vars

\* A run ended by its second force evaluation, which raised, after one callback.
C21_Witness ==
    /\ cls = "PreconMEP" /\ run # Unset /\ run.at = "raised"
    /\ last = Call("run", "CalcError", Unset)
    /\ run.evals = 2 /\ nsteps = 1 /\ Len(fmax_history) = 1

\* C22: NEB(...) on a well-formed list of images raises -- and leaves no
\* chain behind -- exactly when method is none of aseneb, improvedtangent, eb
\* or scale_fmax is non-zero without dynamic_relaxation; on every other
\* combination of these options it returns a chain carrying them.
C22_ConstructionErrors ==
    (cls = "NEB" /\ last.op = "__init__")
    => LET bad_method == args.method \notin {"aseneb", "improvedtangent", "eb"}
           bad_scale == args.scale_fmax # Float(0) /\ ~args.dynamic_relaxation
       IN /\ (bad_method \/ bad_scale)
             => (/\ pc = "rejected"
                 /\ last.result \in {"ValueError", "NotImplementedError"}
                 /\ nimages = 0 /\ method = "unset" /\ fmax = Unset)
          /\ ~(bad_method \/ bad_scale)
             => (/\ pc = "idle" /\ last.result = "ok"
                 /\ method = args.method
                 /\ scale_fmax = args.scale_fmax
                 /\ dynamic_relaxation = args.dynamic_relaxation)

\* A construction rejected for its method alone.
C22_Witness ==
    /\ cls = "NEB" /\ pc = "rejected"
    /\ last = Call("__init__", "NotImplementedError", Unset)
    /\ args.method = "string" /\ args.dynamic_relaxation

\* C25: in get_forces with method aseneb, while image i is processed t1 is
\* the displacement from image i-1 to image i and t2 the one from image i to
\* image i+1, and the tangent is t2 below imax, t1 above it and t1 + t2 at
\* imax, not normalised.
C25_AsenebTangent ==
    (BandEvaluated /\ method = "aseneb")
    => \A i \in 1..(nimages - 2) :
          LET before == VSub(FlatOf(images[i].positions), FlatOf(images[i - 1].positions))
              after == VSub(FlatOf(images[i + 1].positions), FlatOf(images[i].positions))
          IN /\ tangents[i].t1 = before
             /\ tangents[i].t2 = after
             /\ tangents[i].tangent =
                   (IF i < Val(imax) THEN after
                    ELSE IF i > Val(imax) THEN before
                    ELSE VAdd(before, after))

\* An aseneb band of four unevenly spaced images whose highest image is the
\* second interior one: an image below imax and imax itself were processed.
C25_Witness ==
    /\ BandEvaluated /\ method = "aseneb" /\ nimages = 4 /\ imax = Slot(2)
    /\ tangents[1].t1 # tangents[1].t2
    /\ tangents[2].tangent = VAdd(tangents[2].t1, tangents[2].t2)

\* C26 (as claimed): once the user has called set_calculators(C) with one
\* calculator per image, every calculator run afterwards on image i is C[i],
\* and get_calculators() returns C.
C26_InstalledCalculatorsUsed ==
    (cls = "SingleCalculatorNEB" /\ calls # Unset /\ calls.installed # Unset)
    => (/\ \A j \in 1..Len(calls.cycle) :
              calls.cycle[j][2] = calls.installed[calls.cycle[j][1]]
        /\ (last.op = "get_calculators") => (last.arg = calls.installed))

\* C27 (as claimed): the real calculator of an interior image runs at most once
\* between two set_positions / set_calculators calls and that of an endpoint
\* at most once until set_calculators replaces it; after
\* get_energies_and_forces every image with a calculator holds a single-point
\* record of its real calculator, which is kept in calculators[i].
C27_RealCalculatorsRunOnce ==
    (cls = "SingleCalculatorNEB" /\ calls # Unset)
    => (/\ \A j1, j2 \in 1..Len(calls.cycle) :
              (calls.cycle[j1][1] = calls.cycle[j2][1]) => (j1 = j2)
        /\ \A j1, j2 \in 1..Len(calls.ends) :
              (calls.ends[j1][1] = calls.ends[j2][1]) => (j1 = j2)
        /\ (last.op \in {"get_energies_and_forces", "get_forces"} /\ last.result = "ok")
           => \A i \in DOMAIN images :
                 (images[i].calc # 0)
                 => (/\ IsSinglePoint(images[i].calc)
                     /\ single.calculators[i] = 0 - images[i].calc))

\* Where refine(steps, begin, end) leaves the image that stood at index i.
C28_NewIndex(i, steps, begin, end) ==
    IF i <= begin THEN i
    ELSE IF i <= end THEN i + (i - begin) * steps
    ELSE i + (end - begin) * steps

\* C28: after any sequence of refine calls nimages is the number of images,
\* there is one spring fewer than images and one calculator slot per image,
\* and all images agree in atom count, pbc and atomic numbers; each
\* refine(steps, begin, end) adds (end - begin) * steps images and keeps the
\* images it found, in their order and at their positions.
C28_RefineKeepsChainConsistent ==
    /\ []((cls = "SingleCalculatorNEB" /\ last.op \in {"__init__", "refine"})
          => (/\ nimages = Cardinality(DOMAIN images)
              /\ Cardinality(DOMAIN self_k) = nimages - 1
              /\ Cardinality(DOMAIN single.calculators) = nimages
              /\ \A i \in DOMAIN images :
                    /\ Cardinality(DOMAIN images[i].positions) = natoms
                    /\ images[i].pbc = images[0].pbc
                    /\ images[i].numbers = images[0].numbers))
    /\ [][(cls = "SingleCalculatorNEB" /\ last'.op = "refine")
          => LET a == last'.arg
                 end == IF a.end < 0 THEN nimages + a.end ELSE a.end
             IN /\ nimages' = nimages + (end - a.begin) * a.steps
                /\ \A i \in DOMAIN images :
                      images'[C28_NewIndex(i, a.steps, a.begin, end)] = images[i]]_vars

\* A refine call that began past image 0 left a chain of seven images.
C28_Witness ==
    /\ cls = "SingleCalculatorNEB" /\ last.op = "refine" /\ last.arg.steps = 1
    /\ nimages = 7 /\ Cardinality(DOMAIN self_k) = 6
    /\ last.arg.begin > 0

C23_IdppRestoresCalculators ==
    (last = Call("idpp_interpolate", "ok", Unset))
    => \A i \in DOMAIN images : images[i].calc = run.before[i]

\* idpp_interpolate returned from a SingleCalculatorNEB, which had hidden the
\* IDPP calculators behind single-point records, after the optimizer had used
\* up its two steps.
C23_Witness ==
    /\ last = Call("idpp_interpolate", "ok", Unset)
    /\ cls = "SingleCalculatorNEB"
    /\ run.steps = 2 /\ run.step = 2
    /\ \A i \in DOMAIN images : single.calculators[i] = IDPPHandle(i)

\* ------------------------------------------------------- ase.io.formats

\* The format tags followed here: a key of all_formats without a special
\* module ("xyz"), a key of all_formats and of format2modulename
\* ("aims-output"), the key of format2modulename that filetype returns for an
\* FHI-aims output file ("aims-out"), and a tag no table knows ("nosuch").
Formats == {"xyz", "aims-output", "aims-out", "nosuch"}

\* all_formats: the codes of the tags followed, <<>> for a tag that is no key.
all_formats(format) ==
    CASE format = "xyz" -> Slot("+F")
      [] format = "aims-output" -> Slot("1F")
      [] OTHER -> Unset

\* format2modulename.get(format, _format)
format2modulename(format, default) ==
    CASE format = "aims-out" -> "aims"
      [] format = "aims-output" -> "aims"
      [] OTHER -> default

\* format.replace('-', '_')
Underscored(format) ==
    CASE format = "aims-out" -> "aims_out"
      [] format = "aims-output" -> "aims_output"
      [] OTHER -> format

\* The tags the module itself knows: the keys of all_formats and of
\* format2modulename, and the literal tags filetype returns.
KnownFormats == {"xyz", "aims-output", "aims-out"}

ModuleNames == {"xyz", "aims", "nosuch"}
ReadKinds == {"absent", "function", "generator"}
WriteKinds == {"absent", "function"}

\* getattr(module, prefix + _format, None)
getattr(prefix, _format) == modules[prefix][_format]

\* initialize, lines 133-136: the entry made from all_formats[format][1];
\* <<>> when format is no key of all_formats (KeyError).
IOFormat(format, read, write) ==
    IF all_formats(format) = Unset
    THEN Unset
    ELSE Slot([read |-> read, write |-> write,
               single |-> (Val(all_formats(format)) \in {"1F", "1S"}),
               acceptsfd |-> (Val(all_formats(format)) \in {"1F", "+F"})])

\* initialize(format): the registry afterwards, how the call ended, and
\* whether import_module was called.
initialize(reg, format) ==
    IF reg[format] # Unset
    THEN [ioformats |-> reg, result |-> "ok", imports |-> 0]
    ELSE LET _format == Underscored(format)
             module_name == format2modulename(format, _format)
         IN  IF module_name \notin modules.importable
             THEN [ioformats |-> reg, imports |-> 1,
                   result |-> "ValueError: File format not recognized"]
             ELSE LET r == getattr("read_", _format)
                      write == getattr("write_", _format)
                      read == IF r = "function" THEN "wrapped" ELSE r
                  IN  IF read = "absent" /\ write = "absent"
                      THEN [ioformats |-> reg, imports |-> 1,
                            result |-> "ValueError: File format not recognized"]
                      ELSE IF IOFormat(format, read, write) = Unset
                      THEN [ioformats |-> reg, imports |-> 1,
                            result |-> "KeyError"]
                      ELSE [ioformats |->
                                [reg EXCEPT ![format] = IOFormat(format, read, write)],
                            imports |-> 1, result |-> "ok"]

\* The module just imported: the registry is empty.  What ase.io holds is
\* outside this module: any module may be missing, and a module may define
\* or lack each read_/write_ function.
InitFormats ==
    /\ pc = "formats"
    /\ cls = "formats"
    /\ ioformats = [f \in Formats |-> Unset]
    /\ imported = 0
    /\ \E importable \in SUBSET {"xyz", "aims"},
          read \in [{Underscored(f) : f \in KnownFormats} -> ReadKinds],
          write \in [{Underscored(f) : f \in KnownFormats} -> WriteKinds] :
          modules = [importable |-> importable,
                     read_ |-> [t \in {Underscored(f) : f \in Formats} |->
                                  IF t \in DOMAIN read THEN read[t] ELSE "absent"],
                     write_ |-> [t \in {Underscored(f) : f \in Formats} |->
                                  IF t \in DOMAIN write THEN write[t] ELSE "absent"]]
    /\ last = Call("import", "ok", Unset)
    /\ images = Unset /\ natoms = Unset /\ nimages = Unset /\ method = Unset
    /\ climb = Unset /\ parallel = Unset
    /\ remove_rotation_and_translation = Unset /\ dynamic_relaxation = Unset
    /\ worldsize = Unset /\ get_all_forces = Unset
    /\ energies = Unset /\ real_forces = Unset /\ imax = Unset /\ emax = Unset
    /\ residuals = Unset /\ invoked = {} /\ raised = {}
    /\ workers = Unset /\ l_energies = Unset /\ l_forces = Unset /\ ranks = Unset
    /\ args = Unset /\ fmax = Unset /\ scale_fmax = Unset /\ self_k = Unset
    /\ oracle = Unset /\ forces = Unset /\ single = Unset /\ tangents = Unset
    /\ calls = Unset /\ nsteps = Unset /\ fmax_history = Unset /\ run = Unset
    /\ dc = Unset

formatsFrame == <<pc, images, chainVars, stepVars, invoked, raised, threadVars,
                  ranks, bandVars, runVars, modules, mdVars>>

\* initialize(format)
Initialize(format) ==
    /\ pc = "formats"
    /\ LET r == initialize(ioformats, format)
       IN  /\ imported + r.imports <= MaxImports
           /\ ioformats' = r.ioformats
           /\ imported' = imported + r.imports
           /\ last' = Call("initialize", r.result, [format |-> format, returned |-> Unset])
    /\ UNCHANGED formatsFrame

\* get_ioformat(format): initialize(format), then return ioformats[format]
GetIOFormat(format) ==
    /\ pc = "formats"
    /\ LET r == initialize(ioformats, format)
       IN  /\ imported + r.imports <= MaxImports
           /\ ioformats' = r.ioformats
           /\ imported' = imported + r.imports
           /\ last' = Call("get_ioformat", r.result,
                           [format |-> format,
                            returned |-> IF r.result = "ok"
                                         THEN r.ioformats[format] ELSE Unset])
    /\ UNCHANGED formatsFrame

NextFormats ==
    \/ \E format \in Formats : Initialize(format)
    \/ \E format \in Formats : GetIOFormat(format)

SpecFormats == InitFormats /\ [][NextFormats]_vars

\* C29: get_ioformat(format) for a tag the module knows returns the registry
\* entry of the tag or raises the 'File format not recognized' ValueError and
\* fails in no other way; a failed lookup leaves the registry as it was; a tag
\* already registered is returned as registered, without a further import.
C29_LookupReturnsOrNotRecognized ==
    [][(last'.op = "get_ioformat" /\ last'.arg.format \in KnownFormats) =>
         /\ last'.result \in {"ok", "ValueError: File format not recognized"}
         /\ last'.result = "ok" =>
               /\ ioformats'[last'.arg.format] # Unset
               /\ last'.arg.returned = ioformats'[last'.arg.format]
         /\ last'.result # "ok" => ioformats' = ioformats
         /\ ioformats[last'.arg.format] # Unset =>
               /\ last'.result = "ok"
               /\ last'.arg.returned = ioformats[last'.arg.format]
               /\ ioformats' = ioformats
               /\ imported' = imported]_vars

\* ---------------------------------------- ase.md.analysis.DiffusionCoefficient

\* The species followed, in sorted order.
Species == <<"H", "O">>

\* A trajectory of L images of two atoms: atom a moves along x by d*(a+1)
\* per image; `symbols` are the chemical symbols of the two atoms.
Trajectory(L, d, symbols) ==
    [t \in 0..(L - 1) |->
        [positions |-> [a \in 0..1 |->
                           [c \in 0..(Dim - 1) |-> IF c = 0 THEN d * t * (a + 1) ELSE 0]],
         symbols |-> symbols]]

\* len(traj)
TrajLen(traj) == Cardinality(DOMAIN traj)

\* sorted(list(set(np.take(symbols, atom_indices))))
SortedSymbols(symbols, atom_indices) ==
    SelectSeq(Species, LAMBDA sp : \E a \in atom_indices : symbols[a] = sp)

\* symbols.count(symbol)
CountSymbol(symbols, symbol) == Cardinality({a \in DOMAIN symbols : symbols[a] = symbol})

\* DiffusionCoefficient.__init__: the attributes of the new object.  slopes
\* and the other arrays of __initialise_arrays are not attributes yet.
DiffusionCoefficient_init(traj, timestep, steps_between_saved_images, atom_indices, molecule) ==
    LET idx == IF atom_indices = Unset THEN DOMAIN traj[0].positions
               ELSE Val(atom_indices)
        types == IF molecule THEN <<"molecule">>
                 ELSE SortedSymbols(traj[0].symbols, idx)
    IN  [traj |-> traj,
         timestep |-> timestep,
         steps_between_saved_images |-> steps_between_saved_images,
         atom_indices |-> idx,
         molecule |-> molecule,
         types_of_atoms |-> types,
         no_of_atoms |-> IF molecule THEN <<1>>
                         ELSE [j \in 1..Len(types) |->
                                  CountSymbol(traj[0].symbols, types[j])],
         no_of_types_of_atoms |-> Len(types),
         no_of_segments |-> Unset,
         len_segments |-> Unset,
         slopes |-> Unset,
         intercepts |-> Unset]

\* calculate, lines 96-118: the data point of species sym_index (from 1) on
\* axis xyz for image image_no of the segment that starts at image first.
EnsembleAverage(d, first, image_no, sym_index, xyz) ==
    LET now == d.traj[first + image_no]
        orig == d.traj[first]
        moved(a) == now.positions[a][xyz] - orig.positions[a][xyz]
        n == Cardinality(DOMAIN now.positions)
        denominator == 2 * d.no_of_atoms[sym_index]
    IN  IF d.molecule
        THEN LET com == SumOver([a \in 0..(n - 1) |->
                                   IF a \in d.atom_indices THEN moved(a) ELSE 0],
                                0, n - 1)
                 len == Cardinality(d.atom_indices)
             IN  Frac(com * com, len * len * denominator)
        ELSE Frac(SumOver([a \in 0..(n - 1) |->
                             IF a \in d.atom_indices
                                /\ now.symbols[a] = d.types_of_atoms[sym_index]
                             THEN moved(a) * moved(a) ELSE 0],
                          0, n - 1),
                  denominator)

\* __fit_data for one axis: np.linalg.lstsq of y against [x, 1] for n >= 2
\* points x[0..n-1] (distinct), y[0..n-1]: <<slope, intercept>>.
fit_data(x, y, n) ==
    LET Sx == SumOver(x, 0, n - 1)
        Sxx == SumOver([j \in 0..(n - 1) |-> x[j] * x[j]], 0, n - 1)
        Sy == FSum(y, n - 1)
        Sxy == FSum([j \in 0..(n - 1) |-> FMul(Float(x[j]), y[j])], n - 1)
        slope == FDiv(FSub(FMul(Float(n), Sxy), FMul(Float(Sx), Sy)),
                      Float(n * Sxx - Sx * Sx))
    IN  <<slope, FDiv(FSub(Sy, FMul(slope, Float(Sx))), Float(n))>>

\* calculate(ignore_n_images, number_of_segments): the object afterwards.
calculate(d, ignore_n_images, number_of_segments) ==
    LET total_images == TrajLen(d.traj) - ignore_n_images
        len_segments == total_images \div number_of_segments
        time_between_images == d.timestep * d.steps_between_saved_images
        timesteps == [j \in 0..(total_images - 1) |-> j * time_between_images]
        fit(sym_index, segment_no, xyz) ==
            LET start == segment_no * len_segments IN
            fit_data([j \in 0..(len_segments - 1) |-> timesteps[start + j]],
                     [j \in 0..(len_segments - 1) |->
                         EnsembleAverage(d, ignore_n_images + start, j, sym_index, xyz)],
                     len_segments)
    IN  [d EXCEPT
           !.no_of_segments = Slot(number_of_segments),
           !.len_segments = Slot(len_segments),
           !.slopes = Slot([sym \in 1..d.no_of_types_of_atoms |->
                              [seg \in 0..(number_of_segments - 1) |->
                                  [xyz \in 0..(Dim - 1) |-> fit(sym, seg, xyz)[1]]]]),
           !.intercepts = Slot([sym \in 1..d.no_of_types_of_atoms |->
                                  [seg \in 0..(number_of_segments - 1) |->
                                      [xyz \in 0..(Dim - 1) |-> fit(sym, seg, xyz)[2]]]])]

\* np.mean(self.slopes[sym_index] * 0.1)
MeanSlope(d, sym_index) ==
    LET S == Val(d.slopes)[sym_index]
        nseg == Val(d.no_of_segments)
        flat == [j \in 0..(Dim * nseg - 1) |-> S[j \div Dim][j % Dim]]
    IN  FMul(Frac(1, 10), FDiv(FSum(flat, Dim * nseg - 1), Float(Dim * nseg)))

\* get_diffusion_coefficients(): the object afterwards, how the call ended and
\* the list returned.  self.slopes of an object that has no such attribute
\* raises AttributeError (line 154).
get_diffusion_coefficients(d) ==
    IF d.slopes = Unset
    THEN [dc |-> d, result |-> "AttributeError", returned |-> Unset]
    ELSE LET after == IF Len(Val(d.slopes)) = 0 THEN calculate(d, 0, 1) ELSE d
         IN  [dc |-> after, result |-> "ok",
              returned |-> Slot([sym \in 1..after.no_of_types_of_atoms |->
                                   MeanSlope(after, sym)])]

\* The atom_indices a caller passes: None, or the first atom only.
AtomIndices == {Unset, Slot({0})}

\* A DiffusionCoefficient just constructed.
InitDiffusion ==
    /\ pc = "analysis"
    /\ cls = "DiffusionCoefficient"
    /\ \E L \in 3..MaxTraj, d \in {0, 1, 2}, timestep \in {1, 2},
          symbols \in {[a \in 0..1 |-> "H"], [a \in 0..1 |-> Species[a + 1]]},
          atom_indices \in AtomIndices, molecule \in BOOLEAN :
          dc = DiffusionCoefficient_init(Trajectory(L, d, symbols), timestep, 1,
                                         atom_indices, molecule)
    /\ last = Call("__init__", "ok", Unset)
    /\ ioformats = Unset /\ imported = Unset /\ modules = Unset
    /\ images = Unset /\ natoms = Unset /\ nimages = Unset /\ method = Unset
    /\ climb = Unset /\ parallel = Unset
    /\ remove_rotation_and_translation = Unset /\ dynamic_relaxation = Unset
    /\ worldsize = Unset /\ get_all_forces = Unset
    /\ energies = Unset /\ real_forces = Unset /\ imax = Unset /\ emax = Unset
    /\ residuals = Unset /\ invoked = {} /\ raised = {}
    /\ workers = Unset /\ l_energies = Unset /\ l_forces = Unset /\ ranks = Unset
    /\ args = Unset /\ fmax = Unset /\ scale_fmax = Unset /\ self_k = Unset
    /\ oracle = Unset /\ forces = Unset /\ single = Unset /\ tangents = Unset
    /\ calls = Unset /\ nsteps = Unset /\ fmax_history = Unset /\ run = Unset

diffusionFrame == <<pc, images, chainVars, stepVars, invoked, raised, threadVars,
                    ranks, bandVars, runVars, ioVars>>

\* dc.calculate(ignore_n_images, number_of_segments), with segments of at
\* least two images so that every fit is determined.
Calculate(ignore_n_images, number_of_segments) ==
    /\ pc = "analysis"
    /\ (TrajLen(dc.traj) - ignore_n_images) \div number_of_segments >= 2
    /\ dc' = calculate(dc, ignore_n_images, number_of_segments)
    /\ last' = Call("calculate", "ok", <<ignore_n_images, number_of_segments>>)
    /\ UNCHANGED diffusionFrame

\* dc.get_diffusion_coefficients()
GetDiffusionCoefficients ==
    /\ pc = "analysis"
    /\ LET r == get_diffusion_coefficients(dc)
       IN  /\ dc' = r.dc
           /\ last' = Call("get_diffusion_coefficients", r.result, r.returned)
    /\ UNCHANGED diffusionFrame

\* dc.print_data(): get_diffusion_coefficients(stddev=True), then the report
\* is printed; the printed text is not followed.
PrintData ==
    /\ pc = "analysis"
    /\ LET r == get_diffusion_coefficients(dc)
       IN  /\ dc' = r.dc
           /\ last' = Call("print_data", r.result, Unset)
    /\ UNCHANGED diffusionFrame

\* dc.plot() with matplotlib installed: len(self.slopes) at line 186, a
\* calculate() when it is 0, then the figure; the figure is not followed.
Plot ==
    /\ pc = "analysis"
    /\ IF dc.slopes = Unset
       THEN /\ last' = Call("plot", "AttributeError", Unset)
            /\ UNCHANGED dc
       ELSE /\ dc' = IF Len(Val(dc.slopes)) = 0 THEN calculate(dc, 0, 1) ELSE dc
            /\ last' = Call("plot", "ok", Unset)
    /\ UNCHANGED diffusionFrame

NextDiffusion ==
    \/ \E ignore_n_images \in 0..1, number_of_segments \in 1..2 :
          Calculate(ignore_n_images, number_of_segments)
    \/ GetDiffusionCoefficients
    \/ PrintData
    \/ Plot

SpecDiffusion == InitDiffusion /\ [][NextDiffusion]_vars

\* C30: get_diffusion_coefficients, print_data or plot called on an object on
\* which calculate has not run yet succeeds: it leaves the object as
\* calculate() with its defaults leaves it.
C30_FreshObjectCalculates ==
    [][(dc.slopes = Unset
        /\ last'.op \in {"get_diffusion_coefficients", "print_data", "plot"}) =>
         /\ last'.result = "ok"
         /\ dc' = calculate(dc, 0, 1)]_vars

====
